---- MODULE Spec2Model ----
(***************************************************************************)
(* State-machine model of the streaming dispatch executor                  *)
(* (src/src/stream/src/executor/dispatch.rs): DispatchExecutorInner, the   *)
(* five dispatcher variants, and the barrier mutation protocol.            *)
(* The next part of the model is the aggregation plan node of the          *)
(* optimizer (src/src/frontend/src/optimizer/plan_node/generic/agg.rs),    *)
(* followed by the creation procedures of the meta catalog manager         *)
(* (src/src/meta/src/manager/catalog/mod.rs).                              *)
(*                                                                         *)
(* Conventions.  Rust vectors are sequences (1-based); a Rust index i is   *)
(* element i + 1.  Option<T> is a sequence of length 0 (None) or 1 (Some). *)
(* An output is an object with an identity: its index in output_tab.       *)
(***************************************************************************)
EXTENDS Integers, Sequences, FiniteSets, TLC

VARIABLES
    dispatchers,   \* DispatchExecutorInner.dispatchers
    output_tab,    \* every output object ever created: [actor_id, data]
    pc,            \* position inside dispatch(): "idle", "pre_done", "sent"
    barrier,       \* the barrier being handled, or the last one handled: its
                   \* position in the input (0: none yet), its mutation, the
                   \* output objects and dispatchers there were when it arrived,
                   \* and the dispatchers it was sent through
    input_log,     \* the messages consumed from the input stream so far
    status,        \* "running", "error" (dispatch returned Err), "panic"
    overflow_checks, \* whether the build panics on integer overflow
    plan,          \* the optimizer's call on an aggregation plan node and
                   \* its result (frontend, generic/agg.rs); None in a run
                   \* of the dispatch executor
    yielded,       \* the barriers execute() has yielded to its BarrierStream
    core,          \* CatalogManager.core, the CatalogManagerCore behind the
                   \* mutex (meta, manager/catalog/mod.rs); None in a run of
                   \* the dispatch executor or of the optimizer
    tasks          \* the callers of the catalog manager: the jobs whose
                   \* start procedure returned Ok, the cancel task that is
                   \* between its two lock scopes, and the last call

vars == <<dispatchers, output_tab, pc, barrier, input_log, status, overflow_checks, plan, yielded, core, tasks>>

----------------------------------------------------------------------------
(* Bounds of the model. *)

\* number of input messages one run consumes
MaxMsgs == 3
\* number of virtual nodes (VirtualNode::COUNT, scaled down)
VNodeCount == 2
\* number of rows of a chunk given to the Hash dispatcher on its own
MaxRows == 3
\* number of barriers that reconfigure the Hash dispatcher on its own
MaxHashBarriers == 1

----------------------------------------------------------------------------
(* Identifiers and values. *)

actor_id == 233

Ops == {"Insert", "Delete", "UpdateDelete", "UpdateInsert"}

\* the values of a column
Datums == {0, 1}

None == <<>>

Some(x) == <<x>>

Range(s) == {s[i] : i \in DOMAIN s}

----------------------------------------------------------------------------
(* Outputs: MockOutput { actor_id, data }; send pushes the message.  An     *)
(* output whose channel is closed fails the send.                          *)

new_output(down_id) == [actor_id |-> down_id, data |-> <<>>, closed |-> FALSE]

\* new_output for each id of ids, appended to the table of output objects
NewOutputs(tab, ids) ==
    tab \o [i \in 1..Len(ids) |-> new_output(ids[i])]

\* the object ids NewOutputs(tab, ids) gives to the new outputs
NewOutputIds(tab, ids) == [i \in 1..Len(ids) |-> Len(tab) + i]

\* the outputs a loop `for output in outs { output.send(msg).await?; }` sends
\* to: those before the first output whose send fails
Reached(tab, outs) ==
    LET bad == {j \in DOMAIN outs : tab[outs[j]].closed}
    IN  IF bad = {} THEN outs
        ELSE SubSeq(outs, 1, (CHOOSE j \in bad : \A k \in bad : j <= k) - 1)

\* the result of that loop
SendResult(tab, outs) ==
    IF \E j \in DOMAIN outs : tab[outs[j]].closed THEN "Err" ELSE "Ok"

send(tab, o, msg) ==
    IF tab[o].closed THEN tab ELSE [tab EXCEPT ![o].data = Append(@, msg)]

\* `for output in outputs { output.send(msg).await?; }`
SendEach(tab, outs, msg) ==
    [o \in DOMAIN tab |->
        IF o \in Range(Reached(tab, outs))
        THEN [tab[o] EXCEPT !.data = Append(@, msg)] ELSE tab[o]]

----------------------------------------------------------------------------
(* Chunks: ops, visibility and rows; rows[i] is the tuple of row i's datums. *)

capacity(chunk) == Len(chunk.vis)

cardinality(chunk) == Cardinality({i \in DOMAIN chunk.vis : chunk.vis[i]})

\* StreamChunk::project: keep the columns listed in output_indices, in order
project(chunk, output_indices) ==
    [chunk EXCEPT !.rows =
        [i \in DOMAIN chunk.rows |->
            [j \in 1..Len(output_indices) |-> chunk.rows[i][output_indices[j] + 1]]]]

with_visibility(ops, rows, vis_map) == [ops |-> ops, vis |-> vis_map, rows |-> rows]

RECURSIVE HashKeys(_, _)
\* the hash of a row's key columns, a stable function of the key datums
HashKeys(row, keys) ==
    IF keys = <<>> THEN 0
    ELSE (row[Head(keys) + 1] + HashKeys(row, Tail(keys))) % VNodeCount

\* VirtualNode::compute_chunk: one vnode per row, visible or not
compute_chunk(chunk, keys) ==
    [i \in DOMAIN chunk.rows |-> HashKeys(chunk.rows[i], keys)]

RECURSIVE to_expanded(_)
\* ActorMapping::from_protobuf(..).to_expanded(): run-length pairs to one
\* actor id per vnode
to_expanded(pb) ==
    IF pb = <<>> THEN <<>>
    ELSE [i \in 1..Head(pb).count |-> Head(pb).actor_id] \o to_expanded(Tail(pb))

\* Watermark::transform_with_indices: the watermark survives iff its column is
\* projected, and then carries the column's position in the projection
transform_with_indices(watermark, output_indices) ==
    LET hits == {j \in DOMAIN output_indices : output_indices[j] = watermark.col_idx}
    IN  IF hits = {} THEN None
        ELSE Some([watermark EXCEPT
                    !.col_idx = (CHOOSE j \in hits : \A k \in hits : j <= k) - 1])

----------------------------------------------------------------------------
(* Messages as an output receives them; seq is the position of the input   *)
(* message they come from.                                                 *)

ChunkMsg(seq, chunk) == [kind |-> "Chunk", seq |-> seq, body |-> chunk]

BarrierMsg(seq) == [kind |-> "Barrier", seq |-> seq, body |-> <<>>]

WatermarkMsg(seq, watermark) == [kind |-> "Watermark", seq |-> seq, body |-> watermark]

----------------------------------------------------------------------------
(* Dispatcher variants.  One record shape for DispatcherImpl; a variant    *)
(* leaves the fields of the other variants at their defaults.              *)

RoundRobinDataDispatcher(outputs, output_indices, dispatcher_id) ==
    [kind |-> "RoundRobin", dispatcher_id |-> dispatcher_id, outputs |-> outputs,
     output_indices |-> output_indices, keys |-> <<>>, hash_mapping |-> <<>>,
     cur |-> 0, table_name_col_index |-> 0, downstream_table_name |-> None]

HashDataDispatcher(outputs, keys, output_indices, hash_mapping, dispatcher_id) ==
    [kind |-> "Hash", dispatcher_id |-> dispatcher_id, outputs |-> outputs,
     output_indices |-> output_indices, keys |-> keys, hash_mapping |-> hash_mapping,
     cur |-> 0, table_name_col_index |-> 0, downstream_table_name |-> None]

\* an into_pairs whose pairs all stay, also those with the key of another
into_pairs_keep_all(tab, acc, outputs) == acc \o outputs

RECURSIVE into_pairs(_, _, _)
\* collecting (actor_id, output) pairs into a HashMap: a later output of an
\* actor id replaces the earlier one.  acc holds object ids, one per actor id.
into_pairs(tab, acc, outputs) ==
    IF outputs = <<>> THEN acc
    ELSE LET o == Head(outputs)
             same == {j \in DOMAIN acc : tab[acc[j]].actor_id = tab[o].actor_id}
         IN  into_pairs(tab,
                        IF same = {} THEN Append(acc, o)
                        ELSE [j \in DOMAIN acc |-> IF j \in same THEN o ELSE acc[j]],
                        Tail(outputs))

BroadcastDispatcher(tab, outputs, output_indices, dispatcher_id) ==
    [kind |-> "Broadcast", dispatcher_id |-> dispatcher_id,
     outputs |-> into_pairs(tab, <<>>, outputs),
     output_indices |-> output_indices, keys |-> <<>>, hash_mapping |-> <<>>,
     cur |-> 0, table_name_col_index |-> 0, downstream_table_name |-> None]

CdcTableNameDispatcher(outputs, table_name_col_index, output_indices, dispatcher_id, downstream_table_name) ==
    [kind |-> "CdcTableName", dispatcher_id |-> dispatcher_id, outputs |-> outputs,
     output_indices |-> output_indices, keys |-> <<>>, hash_mapping |-> <<>>,
     cur |-> 0, table_name_col_index |-> table_name_col_index,
     downstream_table_name |-> downstream_table_name]

SimpleDispatcher(output, output_indices, dispatcher_id) ==
    [kind |-> "Simple", dispatcher_id |-> dispatcher_id, outputs |-> <<output>>,
     output_indices |-> output_indices, keys |-> <<>>, hash_mapping |-> <<>>,
     cur |-> 0, table_name_col_index |-> 0, downstream_table_name |-> None]

is_empty(d) == d.outputs = <<>>

\* what a dispatcher operation returns: the dispatcher and the output objects
\* after it, and "Ok", "Err" (StreamResult::Err) or "Panic"
Outcome(d, tab, result) == [d |-> d, tab |-> tab, result |-> result]

----------------------------------------------------------------------------
(* add_outputs / remove_outputs *)

\* Vec::extract_if(..).count() / retain: drop the outputs whose actor is listed
ExtractIf(tab, outputs, actor_ids) ==
    SelectSeq(outputs, LAMBDA o : tab[o].actor_id \notin actor_ids)

\* an add_outputs without SimpleDispatcher's assertion
add_outputs_unasserted(d, tab, outputs) ==
    IF d.kind = "Broadcast"
    THEN Outcome([d EXCEPT !.outputs = into_pairs(tab, @, outputs)], tab, "Ok")
    ELSE Outcome([d EXCEPT !.outputs = @ \o outputs], tab, "Ok")

\* an add_outputs that puts the new outputs in the place of the old ones
add_outputs_replace(d, tab, outputs) == Outcome([d EXCEPT !.outputs = outputs], tab, "Ok")

\* add_outputs of every variant; result "Panic" is SimpleDispatcher's
\* assert!(self.output.len() <= 2)
add_outputs(d, tab, outputs) ==
    CASE d.kind = "Broadcast" ->
            Outcome([d EXCEPT !.outputs = into_pairs(tab, @, outputs)], tab, "Ok")
      [] d.kind = "Simple" ->
            Outcome([d EXCEPT !.outputs = @ \o outputs], tab,
                    IF Len(d.outputs) + Len(outputs) <= 2 THEN "Ok" ELSE "Panic")
      [] OTHER ->
            Outcome([d EXCEPT !.outputs = @ \o outputs], tab, "Ok")

\* a remove_outputs that removes nothing
remove_outputs_none(d, tab, actor_ids, checked) == Outcome(d, tab, "Ok")

\* remove_outputs of every variant.  RoundRobin ends with
\* `self.cur = self.cur.min(self.outputs.len() - 1)`: with no output left the
\* subtraction underflows, which panics in a build with overflow checks and
\* wraps to usize::MAX in one without.
remove_outputs(d, tab, actor_ids, checked) ==
    LET rest == ExtractIf(tab, d.outputs, actor_ids)
    IN  IF d.kind = "RoundRobin"
        THEN IF rest = <<>>
             THEN Outcome([d EXCEPT !.outputs = rest], tab,
                          IF checked THEN "Panic" ELSE "Ok")
             ELSE Outcome([d EXCEPT !.outputs = rest,
                                    !.cur = IF @ < Len(rest) - 1 THEN @ ELSE Len(rest) - 1],
                          tab, "Ok")
        ELSE Outcome([d EXCEPT !.outputs = rest], tab, "Ok")

----------------------------------------------------------------------------
(* dispatch_barrier / dispatch_watermark *)

\* a dispatch_barrier that, for a Simple dispatcher, sends to its first output only
dispatch_barrier_first_only(d, tab, seq) ==
    IF d.kind = "Simple"
    THEN Outcome(d, SendEach(tab, SubSeq(d.outputs, 1, 1), BarrierMsg(seq)), "Ok")
    ELSE Outcome(d, SendEach(tab, d.outputs, BarrierMsg(seq)), SendResult(tab, d.outputs))

\* every variant: `for output in outputs { output.send(barrier) }`
dispatch_barrier(d, tab, seq) ==
    Outcome(d, SendEach(tab, d.outputs, BarrierMsg(seq)), SendResult(tab, d.outputs))

\* a dispatch_watermark that sends the watermark with the column index it
\* came with
dispatch_watermark_unmapped(d, tab, seq, watermark) ==
    IF d.kind = "Simple" /\ Len(d.outputs) # 1
    THEN Outcome(d, tab, "Panic")
    ELSE IF transform_with_indices(watermark, d.output_indices) = None
    THEN Outcome(d, tab, "Ok")
    ELSE Outcome(d, SendEach(tab, d.outputs, WatermarkMsg(seq, watermark)),
                 SendResult(tab, d.outputs))

\* a dispatch_watermark that puts the watermark in front of what the outputs
\* have received
dispatch_watermark_in_front(d, tab, seq, watermark) ==
    LET w == transform_with_indices(watermark, d.output_indices)
    IN  IF w = None THEN Outcome(d, tab, "Ok")
        ELSE Outcome(d, [o \in DOMAIN tab |->
                            IF o \in Range(d.outputs)
                            THEN [tab[o] EXCEPT !.data = <<WatermarkMsg(seq, w[1])>> \o @]
                            ELSE tab[o]], "Ok")

\* Hash, Broadcast, RoundRobin, CdcTableName broadcast the transformed
\* watermark; Simple first takes its exactly-one output
dispatch_watermark(d, tab, seq, watermark) ==
    LET w == transform_with_indices(watermark, d.output_indices)
    IN  IF d.kind = "Simple" /\ Len(d.outputs) # 1
        THEN Outcome(d, tab, "Panic")
        ELSE IF w = None THEN Outcome(d, tab, "Ok")
        ELSE Outcome(d, SendEach(tab, d.outputs, WatermarkMsg(seq, w[1])),
                     SendResult(tab, d.outputs))

----------------------------------------------------------------------------
(* dispatch_data *)

RECURSIVE RewriteOps(_, _, _, _, _, _)
\* The loop of HashDataDispatcher::dispatch_data over the rows, from row i on:
\* last is last_vnode_when_update_delete (-1 for None), new_ops the ops pushed
\* so far.  An invisible row pushes its op; a visible UpdateDelete pushes
\* nothing and records its vnode; a visible UpdateInsert pushes two ops, or
\* panics on `last_vnode_when_update_delete.unwrap()`.
RewriteOps(ops, vis, vnodes, i, last, new_ops) ==
    IF i > Len(ops) THEN [ops |-> new_ops, panic |-> FALSE]
    ELSE IF ~vis[i] THEN RewriteOps(ops, vis, vnodes, i + 1, last, Append(new_ops, ops[i]))
    ELSE IF ops[i] = "UpdateDelete"
         THEN RewriteOps(ops, vis, vnodes, i + 1, vnodes[i], new_ops)
    ELSE IF ops[i] = "UpdateInsert"
         THEN IF last = -1 THEN [ops |-> new_ops, panic |-> TRUE]
              ELSE RewriteOps(ops, vis, vnodes, i + 1, last,
                              new_ops \o (IF vnodes[i] # last
                                          THEN <<"Delete", "Insert">>
                                          ELSE <<"UpdateDelete", "UpdateInsert">>))
    ELSE RewriteOps(ops, vis, vnodes, i + 1, last, Append(new_ops, ops[i]))

\* HashVisMap without the `visible &&` of the row
HashVisMap_any_row(chunk, vnodes, hash_mapping, down_id) ==
    [i \in DOMAIN chunk.vis |-> hash_mapping[vnodes[i] + 1] = down_id]

\* the visibility map dispatch_data builds for the output of actor down_id
HashVisMap(chunk, vnodes, hash_mapping, down_id) ==
    [i \in DOMAIN chunk.vis |-> chunk.vis[i] /\ hash_mapping[vnodes[i] + 1] = down_id]

\* every output, whether or not its chunk has a visible row
Wanted_all(outputs, built) == outputs

\* the outputs whose chunk has a visible row: `if cardinality() > 0 { send }`;
\* built[o] is the chunk built for output o
Wanted(outputs, built) == SelectSeq(outputs, LAMBDA o : cardinality(built[o]) > 0)

\* send to each output the chunk built for it, unless no row of it is visible
SendVisible(tab, outputs, seq, built) ==
    [o \in DOMAIN tab |->
        IF o \in Range(Reached(tab, Wanted(outputs, built)))
        THEN [tab[o] EXCEPT !.data = Append(@, ChunkMsg(seq, built[o]))]
        ELSE tab[o]]

HashDispatchData(d, tab, seq, chunk) ==
    LET vnodes == compute_chunk(chunk, d.keys)
        projected == project(chunk, d.output_indices)
        rewritten == RewriteOps(projected.ops, projected.vis, vnodes, 1, -1, <<>>)
        built == [o \in Range(d.outputs) |->
                    with_visibility(rewritten.ops, projected.rows,
                        HashVisMap(projected, vnodes, d.hash_mapping, tab[o].actor_id))]
    IN  IF rewritten.panic THEN Outcome(d, tab, "Panic")
        ELSE Outcome(d, SendVisible(tab, d.outputs, seq, built),
                     SendResult(tab, Wanted(d.outputs, built)))

\* a Broadcast dispatch_data that sends the chunk to every output twice
BroadcastDispatchData_twice(d, tab, seq, chunk) ==
    LET msg == ChunkMsg(seq, project(chunk, d.output_indices))
    IN  Outcome(d, SendEach(SendEach(tab, d.outputs, msg), d.outputs, msg),
                SendResult(tab, d.outputs))

\* BroadcastDispatcher::dispatch_data
BroadcastDispatchData(d, tab, seq, chunk) ==
    Outcome(d, SendEach(tab, d.outputs, ChunkMsg(seq, project(chunk, d.output_indices))),
            SendResult(tab, d.outputs))

\* a RoundRobin dispatch_data that leaves cur where it is
RoundRobinDispatchData_stay(d, tab, seq, chunk) ==
    IF d.cur >= Len(d.outputs) THEN Outcome(d, tab, "Panic")
    ELSE Outcome(d, send(tab, d.outputs[d.cur + 1],
                         ChunkMsg(seq, project(chunk, d.output_indices))), "Ok")

\* `self.outputs[self.cur]` panics when cur is out of bounds
RoundRobinDispatchData(d, tab, seq, chunk) ==
    IF d.cur >= Len(d.outputs) THEN Outcome(d, tab, "Panic")
    ELSE IF tab[d.outputs[d.cur + 1]].closed THEN Outcome(d, tab, "Err")
    ELSE Outcome([d EXCEPT !.cur = (@ + 1) % Len(d.outputs)],
                 send(tab, d.outputs[d.cur + 1], ChunkMsg(seq, project(chunk, d.output_indices))),
                 "Ok")

\* a dispatch_data that sends to the first output, whatever the number of outputs
SimpleDispatchData_first(d, tab, seq, chunk) ==
    IF d.outputs = <<>> THEN Outcome(d, tab, "Panic")
    ELSE Outcome(d, send(tab, d.outputs[1], ChunkMsg(seq, project(chunk, d.output_indices))),
                 SendResult(tab, <<d.outputs[1]>>))

\* `.exactly_one().expect("expect exactly one output")`
SimpleDispatchData(d, tab, seq, chunk) ==
    IF Len(d.outputs) # 1 THEN Outcome(d, tab, "Panic")
    ELSE Outcome(d, send(tab, d.outputs[1], ChunkMsg(seq, project(chunk, d.output_indices))),
                 SendResult(tab, d.outputs))

\* The table name is read from the projected chunk, at table_name_col_index,
\* and only for visible rows (rows_with_holes); datum_at panics out of bounds.
\* Every output gets the same visibility map.
CdcTableNameDispatchData(d, tab, seq, chunk) ==
    LET projected == project(chunk, d.output_indices)
        reads == d.outputs # <<>> /\ d.downstream_table_name # None
                 /\ \E i \in DOMAIN projected.vis : projected.vis[i]
        should_emit(i) ==
            IF projected.vis[i] /\ d.downstream_table_name # None
            THEN projected.rows[i][d.table_name_col_index + 1] = d.downstream_table_name[1]
            ELSE TRUE
        vis_map == [i \in DOMAIN projected.vis |-> projected.vis[i] /\ should_emit(i)]
        built == [o \in Range(d.outputs) |->
                    with_visibility(projected.ops, projected.rows, vis_map)]
    IN  IF reads /\ d.table_name_col_index >= Len(d.output_indices)
        THEN Outcome(d, tab, "Panic")
        ELSE Outcome(d, SendVisible(tab, d.outputs, seq, built),
                     SendResult(tab, Wanted(d.outputs, built)))

\* DispatcherImpl::dispatch_data
dispatch_data(d, tab, seq, chunk) ==
    CASE d.kind = "Hash" -> HashDispatchData(d, tab, seq, chunk)
      [] d.kind = "Broadcast" -> BroadcastDispatchData(d, tab, seq, chunk)
      [] d.kind = "Simple" -> SimpleDispatchData(d, tab, seq, chunk)
      [] d.kind = "RoundRobin" -> RoundRobinDispatchData(d, tab, seq, chunk)
      [] d.kind = "CdcTableName" -> CdcTableNameDispatchData(d, tab, seq, chunk)

----------------------------------------------------------------------------
(* DispatcherImpl::new and the mutation steps of DispatchExecutorInner.    *)
(* They return the dispatcher list and the output objects after the step,  *)
(* and "Ok", "Err" or "Panic".                                             *)

ExecOutcome(disps, tab, result) == [dispatchers |-> disps, tab |-> tab, result |-> result]

\* HashMap::get
Get(map, key) == IF key \in DOMAIN map THEN Some(map[key]) ELSE None

\* DispatcherImpl::new: the outputs are created first, then the variant is
\* built.  Hash and CdcTablename assert a non-empty output list, Simple and
\* NoShuffle unwrap exactly one output, Unspecified is unreachable!();
\* get_hash_mapping()? is an Err when the field is absent.
DispatcherNew(tab, pb) ==
    LET tab2 == NewOutputs(tab, pb.downstream_actor_id)
        outputs == NewOutputIds(tab, pb.downstream_actor_id)
        Failed(result) == Outcome(<<>>, tab2, result)
    IN  CASE pb.type = "Hash" ->
                IF outputs = <<>> THEN Failed("Panic")
                ELSE IF pb.hash_mapping = None THEN Failed("Err")
                ELSE Outcome(HashDataDispatcher(outputs, pb.dist_key_indices,
                                 pb.output_indices, to_expanded(pb.hash_mapping[1]),
                                 pb.dispatcher_id), tab2, "Ok")
          [] pb.type = "CdcTablename" ->
                IF outputs = <<>> \/ pb.downstream_table_name = None
                   \/ Len(pb.dist_key_indices) # 1
                THEN Failed("Panic")
                ELSE Outcome(CdcTableNameDispatcher(outputs, pb.dist_key_indices[1],
                                 pb.output_indices, pb.dispatcher_id,
                                 pb.downstream_table_name), tab2, "Ok")
          [] pb.type = "Broadcast" ->
                Outcome(BroadcastDispatcher(tab2, outputs, pb.output_indices,
                            pb.dispatcher_id), tab2, "Ok")
          [] pb.type \in {"Simple", "NoShuffle"} ->
                IF Len(outputs) # 1 THEN Failed("Panic")
                ELSE Outcome(SimpleDispatcher(outputs[1], pb.output_indices,
                                 pb.dispatcher_id), tab2, "Ok")
          [] OTHER -> Failed("Panic")

RECURSIVE NewDispatchers(_, _, _)
\* `.map(|d| DispatcherImpl::new(..)).try_collect()?`: stops at the first failure
NewDispatchers(tab, pbs, acc) ==
    IF pbs = <<>> THEN ExecOutcome(acc, tab, "Ok")
    ELSE LET r == DispatcherNew(tab, Head(pbs))
         IN  IF r.result # "Ok" THEN ExecOutcome(acc, r.tab, r.result)
             ELSE NewDispatchers(r.tab, Tail(pbs), Append(acc, r.d))

all_unique(disps) ==
    \A i, j \in DOMAIN disps : i # j => disps[i].dispatcher_id # disps[j].dispatcher_id

\* add_dispatchers without the assertion on the ids
add_dispatchers_unchecked(disps, tab, new_dispatchers) ==
    LET built == NewDispatchers(tab, new_dispatchers, <<>>)
    IN  IF built.result # "Ok" THEN ExecOutcome(disps, built.tab, built.result)
        ELSE ExecOutcome(disps \o built.dispatchers, built.tab, "Ok")

\* add_dispatchers: build, extend, then assert that the ids are unique
add_dispatchers(disps, tab, new_dispatchers) ==
    LET built == NewDispatchers(tab, new_dispatchers, <<>>)
    IN  IF built.result # "Ok" THEN ExecOutcome(disps, built.tab, built.result)
        ELSE ExecOutcome(disps \o built.dispatchers, built.tab,
                         IF all_unique(disps \o built.dispatchers) THEN "Ok" ELSE "Panic")

\* find_dispatcher: the index of the first dispatcher with the id, 0 when the
\* code panics with "dispatcher .. not found"
find_dispatcher(disps, dispatcher_id) ==
    LET hits == {i \in DOMAIN disps : disps[i].dispatcher_id = dispatcher_id}
    IN  IF hits = {} THEN 0 ELSE CHOOSE i \in hits : \A k \in hits : i <= k

\* a pre_update_dispatcher that passes over an update for a dispatcher that
\* is not there
pre_update_dispatcher_skip_unknown(disps, tab, update) ==
    LET tab2 == NewOutputs(tab, update.added_downstream_actor_id)
        outputs == NewOutputIds(tab, update.added_downstream_actor_id)
        i == find_dispatcher(disps, update.dispatcher_id)
        r == add_outputs(disps[i], tab2, outputs)
    IN  IF i = 0 THEN ExecOutcome(disps, tab2, "Ok")
        ELSE ExecOutcome([disps EXCEPT ![i] = r.d], r.tab, r.result)

\* a pre_update_dispatcher that already installs the update's mapping
pre_update_dispatcher_remap(disps, tab, update) ==
    LET tab2 == NewOutputs(tab, update.added_downstream_actor_id)
        outputs == NewOutputIds(tab, update.added_downstream_actor_id)
        i == find_dispatcher(disps, update.dispatcher_id)
        r == add_outputs(disps[i], tab2, outputs)
        remapped == IF r.d.kind = "Hash" /\ update.hash_mapping # None
                    THEN [r.d EXCEPT !.hash_mapping = to_expanded(update.hash_mapping[1])]
                    ELSE r.d
    IN  IF i = 0 THEN ExecOutcome(disps, tab2, "Panic")
        ELSE ExecOutcome([disps EXCEPT ![i] = remapped], r.tab, r.result)

\* pre_update_dispatcher: create the added outputs, find the dispatcher, add
pre_update_dispatcher(disps, tab, update) ==
    LET tab2 == NewOutputs(tab, update.added_downstream_actor_id)
        outputs == NewOutputIds(tab, update.added_downstream_actor_id)
        i == find_dispatcher(disps, update.dispatcher_id)
        r == add_outputs(disps[i], tab2, outputs)
    IN  IF i = 0 THEN ExecOutcome(disps, tab2, "Panic")
        ELSE ExecOutcome([disps EXCEPT ![i] = r.d], r.tab, r.result)

\* post_update_dispatcher that reads the update's mapping for every variant
post_update_dispatcher_reads_mapping(disps, tab, update, checked) ==
    LET i == find_dispatcher(disps, update.dispatcher_id)
        r == remove_outputs(disps[i], tab, Range(update.removed_downstream_actor_id),
                            checked)
        removed == [disps EXCEPT ![i] = r.d]
    IN  IF i = 0 THEN ExecOutcome(disps, tab, "Panic")
        ELSE IF r.result # "Ok" THEN ExecOutcome(removed, r.tab, r.result)
        ELSE IF update.hash_mapping = None THEN ExecOutcome(removed, r.tab, "Err")
        ELSE IF r.d.kind # "Hash" THEN ExecOutcome(removed, r.tab, "Ok")
        ELSE ExecOutcome([removed EXCEPT ![i].hash_mapping =
                                to_expanded(update.hash_mapping[1])], r.tab, "Ok")

\* post_update_dispatcher that removes the outputs but keeps the old mapping
post_update_dispatcher_keep_mapping(disps, tab, update, checked) ==
    LET i == find_dispatcher(disps, update.dispatcher_id)
        r == remove_outputs(disps[i], tab, Range(update.removed_downstream_actor_id),
                            checked)
        removed == [disps EXCEPT ![i] = r.d]
    IN  IF i = 0 THEN ExecOutcome(disps, tab, "Panic")
        ELSE IF r.result # "Ok" THEN ExecOutcome(removed, r.tab, r.result)
        ELSE IF r.d.kind # "Hash" THEN ExecOutcome(removed, r.tab, "Ok")
        ELSE IF update.hash_mapping = None THEN ExecOutcome(removed, r.tab, "Err")
        ELSE ExecOutcome(removed, r.tab, "Ok")

\* post_update_dispatcher that replaces the mapping but removes no output
post_update_dispatcher_keep_outputs(disps, tab, update, checked) ==
    LET i == find_dispatcher(disps, update.dispatcher_id)
    IN  IF i = 0 THEN ExecOutcome(disps, tab, "Panic")
        ELSE IF disps[i].kind # "Hash" THEN ExecOutcome(disps, tab, "Ok")
        ELSE IF update.hash_mapping = None THEN ExecOutcome(disps, tab, "Err")
        ELSE ExecOutcome([disps EXCEPT ![i].hash_mapping =
                                to_expanded(update.hash_mapping[1])], tab, "Ok")

\* post_update_dispatcher: find the dispatcher, remove the outputs, and for a
\* Hash dispatcher replace the mapping by the update's (an Err when absent)
post_update_dispatcher(disps, tab, update, checked) ==
    LET i == find_dispatcher(disps, update.dispatcher_id)
        r == remove_outputs(disps[i], tab, Range(update.removed_downstream_actor_id),
                            checked)
        removed == [disps EXCEPT ![i] = r.d]
    IN  IF i = 0 THEN ExecOutcome(disps, tab, "Panic")
        ELSE IF r.result # "Ok" THEN ExecOutcome(removed, r.tab, r.result)
        ELSE IF r.d.kind # "Hash" THEN ExecOutcome(removed, r.tab, "Ok")
        ELSE IF update.hash_mapping = None THEN ExecOutcome(removed, r.tab, "Err")
        ELSE ExecOutcome([removed EXCEPT ![i].hash_mapping =
                                to_expanded(update.hash_mapping[1])], r.tab, "Ok")

RECURSIVE PreUpdateEach(_, _, _)
\* `for update in updates { self.pre_update_dispatcher(update)?; }`
PreUpdateEach(disps, tab, updates) ==
    IF updates = <<>> THEN ExecOutcome(disps, tab, "Ok")
    ELSE LET r == pre_update_dispatcher(disps, tab, Head(updates))
         IN  IF r.result # "Ok" THEN r
             ELSE PreUpdateEach(r.dispatchers, r.tab, Tail(updates))

RECURSIVE PostUpdateEach(_, _, _, _)
\* `for update in updates { self.post_update_dispatcher(update)?; }`
PostUpdateEach(disps, tab, updates, checked) ==
    IF updates = <<>> THEN ExecOutcome(disps, tab, "Ok")
    ELSE LET r == post_update_dispatcher(disps, tab, Head(updates), checked)
         IN  IF r.result # "Ok" THEN r
             ELSE PostUpdateEach(r.dispatchers, r.tab, Tail(updates), checked)

\* a removal that reaches the first dispatcher only
RemoveFromEach_first_only(disps, tab, i, actor_ids, checked) ==
    IF disps = <<>> THEN ExecOutcome(disps, tab, "Ok")
    ELSE LET r == remove_outputs(disps[1], tab, actor_ids, checked)
         IN  ExecOutcome([disps EXCEPT ![1] = r.d], r.tab, r.result)

RECURSIVE RemoveFromEach(_, _, _, _, _)
\* `for dispatcher in &mut self.dispatchers { dispatcher.remove_outputs(ids) }`,
\* from dispatcher i on
RemoveFromEach(disps, tab, i, actor_ids, checked) ==
    IF i > Len(disps) THEN ExecOutcome(disps, tab, "Ok")
    ELSE LET r == remove_outputs(disps[i], tab, actor_ids, checked)
             removed == [disps EXCEPT ![i] = r.d]
         IN  IF r.result # "Ok" THEN ExecOutcome(removed, r.tab, r.result)
             ELSE RemoveFromEach(removed, r.tab, i + 1, actor_ids, checked)

\* pre_mutate_dispatchers
pre_mutate_dispatchers(disps, tab, mutation) ==
    IF mutation = None THEN ExecOutcome(disps, tab, "Ok")
    ELSE LET m == mutation[1]
         IN  CASE m.type = "Add" ->
                    IF Get(m.adds, actor_id) = None THEN ExecOutcome(disps, tab, "Ok")
                    ELSE add_dispatchers(disps, tab, m.adds[actor_id])
               [] m.type = "Update" ->
                    LET added == IF Get(m.actor_new_dispatchers, actor_id) = None
                                 THEN ExecOutcome(disps, tab, "Ok")
                                 ELSE add_dispatchers(disps, tab,
                                                      m.actor_new_dispatchers[actor_id])
                    IN  IF added.result # "Ok" THEN added
                        ELSE IF Get(m.dispatchers, actor_id) = None THEN added
                        ELSE PreUpdateEach(added.dispatchers, added.tab,
                                           m.dispatchers[actor_id])
               [] OTHER -> ExecOutcome(disps, tab, "Ok")

\* a retain that keeps every dispatcher
Retain_all(disps) == disps

\* `self.dispatchers.retain(|d| !d.is_empty())`
Retain(disps) == SelectSeq(disps, LAMBDA d : ~is_empty(d))

\* a post_mutate_dispatchers that removes the stopped and the dropped actors
\* also when this actor is among them
post_mutate_dispatchers_self_too(disps, tab, mutation, checked) ==
    IF mutation = None THEN ExecOutcome(disps, tab, "Ok")
    ELSE LET m == mutation[1]
             mutated ==
                CASE m.type = "Stop" -> RemoveFromEach(disps, tab, 1, m.stops, checked)
                  [] m.type = "Update" ->
                        LET updated == IF Get(m.dispatchers, actor_id) = None
                                       THEN ExecOutcome(disps, tab, "Ok")
                                       ELSE PostUpdateEach(disps, tab,
                                                m.dispatchers[actor_id], checked)
                        IN  IF updated.result # "Ok" THEN updated
                            ELSE RemoveFromEach(updated.dispatchers, updated.tab, 1,
                                                m.dropped_actors, checked)
                  [] OTHER -> ExecOutcome(disps, tab, "Ok")
         IN  IF mutated.result # "Ok" THEN mutated
             ELSE ExecOutcome(Retain(mutated.dispatchers), mutated.tab, "Ok")

\* post_mutate_dispatchers; an Err or a panic leaves before the final retain
post_mutate_dispatchers(disps, tab, mutation, checked) ==
    IF mutation = None THEN ExecOutcome(disps, tab, "Ok")
    ELSE LET m == mutation[1]
             mutated ==
                CASE m.type = "Stop" ->
                        IF actor_id \in m.stops THEN ExecOutcome(disps, tab, "Ok")
                        ELSE RemoveFromEach(disps, tab, 1, m.stops, checked)
                  [] m.type = "Update" ->
                        LET updated == IF Get(m.dispatchers, actor_id) = None
                                       THEN ExecOutcome(disps, tab, "Ok")
                                       ELSE PostUpdateEach(disps, tab,
                                                m.dispatchers[actor_id], checked)
                        IN  IF updated.result # "Ok" THEN updated
                            ELSE IF actor_id \in m.dropped_actors THEN updated
                            ELSE RemoveFromEach(updated.dispatchers, updated.tab, 1,
                                                m.dropped_actors, checked)
                  [] OTHER -> ExecOutcome(disps, tab, "Ok")
         IN  IF mutated.result # "Ok" THEN mutated
             ELSE ExecOutcome(Retain(mutated.dispatchers), mutated.tab, "Ok")

----------------------------------------------------------------------------
(* DispatchExecutorInner::dispatch, one step per phase of the Barrier arm. *)

\* an input message: kind and body (chunk, watermark, or barrier mutation)
Message(kind, body) == [kind |-> kind, body |-> body]

DispatchOne(d, tab, seq, msg) ==
    CASE msg.kind = "Chunk" -> dispatch_data(d, tab, seq, msg.body)
      [] msg.kind = "Watermark" -> dispatch_watermark(d, tab, seq, msg.body)
      [] msg.kind = "Barrier" -> dispatch_barrier(d, tab, seq)

\* a dispatch that hands the message to the first dispatcher only
DispatchEach_first_only(disps, tab, i, seq, msg) ==
    IF disps = <<>> THEN ExecOutcome(disps, tab, "Ok")
    ELSE LET r == DispatchOne(disps[1], tab, seq, msg)
         IN  ExecOutcome([disps EXCEPT ![1] = r.d], r.tab, r.result)

RECURSIVE DispatchEach(_, _, _, _, _)
\* `for dispatcher in &mut self.dispatchers { dispatcher.dispatch_..(..).await?; }`
\* from dispatcher i on; with one dispatcher the chunk is moved, not cloned
DispatchEach(disps, tab, i, seq, msg) ==
    IF i > Len(disps) THEN ExecOutcome(disps, tab, "Ok")
    ELSE LET r == DispatchOne(disps[i], tab, seq, msg)
             done == [disps EXCEPT ![i] = r.d]
         IN  IF r.result # "Ok" THEN ExecOutcome(done, r.tab, r.result)
             ELSE DispatchEach(done, r.tab, i + 1, seq, msg)

StatusOf(result) ==
    CASE result = "Ok" -> "running" [] result = "Err" -> "error" [] OTHER -> "panic"

\* between two messages, whatever became of the last dispatch
Idle_after_error == pc = "idle"

\* the loop of execute is at `for msg in input`; `.await?` has left it
\* when a dispatch returned an error
Idle == pc = "idle" /\ status = "running"

\* Message::Chunk and Message::Watermark arms
DispatchData(msg) ==
    /\ Idle
    /\ LET r == DispatchEach(dispatchers, output_tab, 1, Len(input_log) + 1, msg)
       IN  /\ dispatchers' = r.dispatchers
           /\ output_tab' = r.tab
           /\ status' = StatusOf(r.result)
    /\ input_log' = Append(input_log, msg)
    /\ UNCHANGED <<pc, barrier, overflow_checks, plan, yielded, core, tasks>>

DispatchChunk(chunk) == DispatchData(Message("Chunk", chunk))

DispatchWatermark(watermark) == DispatchData(Message("Watermark", watermark))

\* Message::Barrier arm, `self.pre_mutate_dispatchers(&mutation)?`
BarrierPre(mutation) ==
    /\ Idle
    /\ LET r == pre_mutate_dispatchers(dispatchers, output_tab, mutation)
       IN  /\ dispatchers' = r.dispatchers
           /\ output_tab' = r.tab
           /\ status' = StatusOf(r.result)
           /\ pc' = IF r.result = "Ok" THEN "pre_done" ELSE pc
    /\ input_log' = Append(input_log, Message("Barrier", [mutation |-> mutation]))
    /\ barrier' = [seq |-> Len(input_log) + 1, mutation |-> mutation,
                    outputs_before |-> Len(output_tab),
                    dispatchers_before |-> dispatchers,
                    dispatchers_sent |-> <<>>,
                    previous |-> [mutation |-> barrier.mutation,
                                  dispatchers_before |-> barrier.dispatchers_before]]
    /\ UNCHANGED <<overflow_checks, plan, yielded, core, tasks>>

\* Message::Barrier arm, the loop over dispatch_barrier
BarrierDispatch ==
    /\ pc = "pre_done" /\ status = "running"
    /\ LET r == DispatchEach(dispatchers, output_tab, 1, barrier.seq,
                             Message("Barrier", [mutation |-> barrier.mutation]))
       IN  /\ dispatchers' = r.dispatchers
           /\ output_tab' = r.tab
           /\ status' = StatusOf(r.result)
           /\ pc' = IF r.result = "Ok" THEN "sent" ELSE pc
           /\ barrier' = [barrier EXCEPT !.dispatchers_sent = r.dispatchers]
    /\ UNCHANGED <<input_log, overflow_checks, plan, yielded, core, tasks>>

\* a post phase that yields the barrier whether or not it has failed
BarrierPost_yield_always ==
    /\ pc = "sent" /\ status = "running"
    /\ LET r == post_mutate_dispatchers(dispatchers, output_tab, barrier.mutation,
                                        overflow_checks)
       IN  /\ dispatchers' = r.dispatchers
           /\ output_tab' = r.tab
           /\ status' = StatusOf(r.result)
           /\ pc' = IF r.result = "Ok" THEN "idle" ELSE pc
           /\ yielded' = Append(yielded, [seq |-> barrier.seq, mutation |-> barrier.mutation])
    /\ UNCHANGED <<input_log, barrier, overflow_checks, plan, core, tasks>>

\* Message::Barrier arm, `self.post_mutate_dispatchers(&mutation)?`, and
\* back in execute, after `.await?`, `yield barrier`
BarrierPost ==
    /\ pc = "sent" /\ status = "running"
    /\ LET r == post_mutate_dispatchers(dispatchers, output_tab, barrier.mutation,
                                        overflow_checks)
       IN  /\ dispatchers' = r.dispatchers
           /\ output_tab' = r.tab
           /\ status' = StatusOf(r.result)
           /\ pc' = IF r.result = "Ok" THEN "idle" ELSE pc
           /\ yielded' = IF r.result = "Ok"
                         THEN Append(yielded, [seq |-> barrier.seq, mutation |-> barrier.mutation])
                         ELSE yielded
    /\ UNCHANGED <<input_log, barrier, overflow_checks, plan, core, tasks>>

----------------------------------------------------------------------------
(* Inputs: protobuf dispatchers, updates and mutations. *)

PbDispatcher(type, dispatcher_id, downstream_actor_id, dist_key_indices, output_indices, hash_mapping, downstream_table_name) ==
    [type |-> type, dispatcher_id |-> dispatcher_id,
     downstream_actor_id |-> downstream_actor_id, dist_key_indices |-> dist_key_indices,
     output_indices |-> output_indices, hash_mapping |-> hash_mapping,
     downstream_table_name |-> downstream_table_name]

PbDispatcherUpdate(dispatcher_id, added, removed, hash_mapping) ==
    [dispatcher_id |-> dispatcher_id, added_downstream_actor_id |-> added,
     removed_downstream_actor_id |-> removed, hash_mapping |-> hash_mapping]

\* the protobuf mapping that gives vnode 0 to actor a and the others to actor b
PbMapping(a, b) ==
    <<[actor_id |-> a, count |-> 1], [actor_id |-> b, count |-> VNodeCount - 1]>>

EmptyMap == <<>>

\* a map with the single key of this executor's actor
ForSelf(value) == [k \in {actor_id} |-> value]

\* a map with an entry for another upstream actor only
ForOther(value) == [k \in {actor_id + 1} |-> value]

MutationOf(type, adds, dispatcher_updates, actor_new_dispatchers, dropped_actors, stops) ==
    [type |-> type, adds |-> adds, dispatchers |-> dispatcher_updates,
     actor_new_dispatchers |-> actor_new_dispatchers, dropped_actors |-> dropped_actors,
     stops |-> stops]

Add(adds) == MutationOf("Add", adds, EmptyMap, EmptyMap, {}, {})

Update(dispatcher_updates, actor_new_dispatchers, dropped_actors) ==
    MutationOf("Update", EmptyMap, dispatcher_updates, actor_new_dispatchers,
               dropped_actors, {})

Stop(stops) == MutationOf("Stop", EmptyMap, EmptyMap, EmptyMap, {}, stops)

Pause == MutationOf("Pause", EmptyMap, EmptyMap, EmptyMap, {}, {})

NewSimple == PbDispatcher("Simple", 888, <<13>>, <<>>, <<0>>, None, None)

NewBroadcast(down) == PbDispatcher("Broadcast", 888, down, <<>>, <<1>>, None, None)

\* the mutations a barrier of the model may carry
Mutations ==
    { Pause,
      Add(ForSelf(<<NewSimple>>)),
      Add(ForOther(<<NewSimple>>)),
      Stop({13}),
      Stop({12}),
      Stop({actor_id, 11, 12}),
      Update(ForSelf(<<PbDispatcherUpdate(666, <<13>>, <<12>>, Some(PbMapping(11, 13)))>>),
             EmptyMap, {}),
      Update(ForSelf(<<PbDispatcherUpdate(666, <<13>>, <<12>>, None)>>), EmptyMap, {}),
      Update(ForSelf(<<PbDispatcherUpdate(666, <<12>>, <<12>>, Some(PbMapping(12, 11)))>>),
             EmptyMap, {}),
      Update(ForSelf(<<PbDispatcherUpdate(888, <<11>>, <<13>>, None)>>), EmptyMap, {}),
      Update(ForSelf(<<PbDispatcherUpdate(888, <<11, 12>>, <<>>, None)>>), EmptyMap, {}),
      Update(ForSelf(<<PbDispatcherUpdate(888, <<12>>, <<>>, None)>>), EmptyMap, {}),
      Update(EmptyMap, ForSelf(<<NewBroadcast(<<13>>), NewBroadcast(<<11>>)>>), {}),
      Update(EmptyMap, ForSelf(<<NewBroadcast(<<13, 13>>)>>), {11, 12}),
      Update(EmptyMap, EmptyMap, {actor_id, 11}),
      Update(ForOther(<<PbDispatcherUpdate(666, <<13>>, <<12>>, None)>>),
             ForOther(<<NewSimple>>), {}) }

Chunk(ops, vis, rows) == [ops |-> ops, vis |-> vis, rows |-> rows]

\* the chunks the executor's input may carry
ExecChunks ==
    { Chunk(<<"Insert", "Delete">>, <<TRUE, TRUE>>, << <<0, 1>>, <<1, 0>> >>),
      Chunk(<<"UpdateDelete", "UpdateInsert", "Insert">>, <<TRUE, TRUE, FALSE>>,
            << <<0, 1>>, <<1, 1>>, <<1, 0>> >>) }

Watermark(col_idx, val) == [col_idx |-> col_idx, val |-> val]

\* the watermarks the executor's input may carry
Watermarks == { Watermark(1, 0), Watermark(1, 1) }

\* the dispatcher lists an executor is constructed with
InitialDispatchers ==
    { <<PbDispatcher("Hash", 666, <<11, 12>>, <<0>>, <<0, 1>>, Some(PbMapping(11, 12)), None)>>,
      <<PbDispatcher("Broadcast", 666, <<11, 12>>, <<>>, <<1>>, None, None),
        PbDispatcher("Simple", 888, <<13>>, <<>>, <<0>>, None, None)>>,
      <<PbDispatcher("RoundRobin", 666, <<11, 12>>, <<>>, <<1, 0>>, None, None)>>,
      <<PbDispatcher("CdcTablename", 666, <<11>>, <<1>>, <<0, 1>>, None, Some(1)),
        PbDispatcher("Broadcast", 888, <<>>, <<>>, <<1>>, None, None)>> }

\* RoundRobinDataDispatcher::new is called directly: DispatcherImpl::new has no
\* arm that builds it
Construct(tab, pb) ==
    IF pb.type = "RoundRobin"
    THEN Outcome(RoundRobinDataDispatcher(NewOutputIds(tab, pb.downstream_actor_id),
                     pb.output_indices, pb.dispatcher_id),
                 NewOutputs(tab, pb.downstream_actor_id), "Ok")
    ELSE DispatcherNew(tab, pb)

RECURSIVE ConstructAll(_, _, _)
ConstructAll(tab, pbs, acc) ==
    IF pbs = <<>> THEN ExecOutcome(acc, tab, "Ok")
    ELSE LET r == Construct(tab, Head(pbs))
         IN  ConstructAll(r.tab, Tail(pbs), Append(acc, r.d))

\* DispatchExecutor::new
InitWith(pbs, checked) ==
    /\ dispatchers = ConstructAll(<<>>, pbs, <<>>).dispatchers
    /\ output_tab = ConstructAll(<<>>, pbs, <<>>).tab
    /\ pc = "idle"
    /\ barrier = [seq |-> 0, mutation |-> None,
                   outputs_before |-> Len(ConstructAll(<<>>, pbs, <<>>).tab),
                   dispatchers_before |-> ConstructAll(<<>>, pbs, <<>>).dispatchers,
                   dispatchers_sent |-> <<>>,
                   previous |-> [mutation |-> None, dispatchers_before |-> <<>>]]
    /\ input_log = <<>>
    /\ status = "running"
    /\ overflow_checks = checked
    /\ plan = None
    /\ yielded = <<>>
    /\ core = None
    /\ tasks = None

\* the overflow behaviour of the build only shows in RoundRobin's remove_outputs
Init ==
    \E pbs \in InitialDispatchers, checked \in BOOLEAN :
        /\ checked \/ \E i \in DOMAIN pbs : pbs[i].type = "RoundRobin"
        /\ InitWith(pbs, checked)

CanConsume == Len(input_log) < MaxMsgs

Next ==
    \/ CanConsume /\ \E chunk \in ExecChunks : DispatchChunk(chunk)
    \/ CanConsume /\ \E watermark \in Watermarks : DispatchWatermark(watermark)
    \/ CanConsume /\ \E mutation \in {None} \cup {Some(m) : m \in Mutations} :
            BarrierPre(mutation)
    \/ BarrierDispatch
    \/ BarrierPost

Spec == Init /\ [][Next]_vars

----------------------------------------------------------------------------
(* The Hash dispatcher on its own: an executor with one Hash dispatcher,   *)
(* reconfigured by at most MaxHashBarriers barriers and then given one     *)
(* chunk out of every chunk of at most MaxRows rows.                       *)

\* every UpdateDelete is directly followed by its UpdateInsert, and every
\* UpdateInsert directly preceded by its UpdateDelete
ValidOps(ops) ==
    \A i \in DOMAIN ops :
        /\ ops[i] = "UpdateDelete" => i < Len(ops) /\ ops[i + 1] = "UpdateInsert"
        /\ ops[i] = "UpdateInsert" => i > 1 /\ ops[i - 1] = "UpdateDelete"

\* rows of two columns: the distribution key and a payload
HashRows == {<<k, 0>> : k \in Datums}

HashChunks ==
    UNION { { Chunk(ops, vis, rows) :
                ops \in {x \in [1..n -> Ops] : ValidOps(x)},
                vis \in [1..n -> BOOLEAN],
                rows \in [1..n -> HashRows] } : n \in 0..MaxRows }

\* a stop of one downstream actor, a scale that moves vnodes from actor 12 to
\* a new actor 13, and a scale-in that leaves every vnode to actor 11
HashMutations ==
    { Stop({12}),
      Update(ForSelf(<<PbDispatcherUpdate(666, <<13>>, <<12>>, Some(PbMapping(11, 13)))>>),
             EmptyMap, {}),
      Update(ForSelf(<<PbDispatcherUpdate(666, <<>>, <<12>>, Some(PbMapping(11, 11)))>>),
             EmptyMap, {}) }

InitHash ==
    InitWith(<<PbDispatcher("Hash", 666, <<11, 12>>, <<0>>, <<0, 1>>,
                            Some(PbMapping(11, 12)), None)>>, TRUE)

NoChunkYet == \A k \in DOMAIN input_log : input_log[k].kind # "Chunk"

NextHash ==
    \/ NoChunkYet /\ \E chunk \in HashChunks : DispatchChunk(chunk)
    \/ NoChunkYet /\ Len(input_log) < MaxHashBarriers
            /\ \E mutation \in HashMutations : BarrierPre(Some(mutation))
    \/ BarrierDispatch
    \/ BarrierPost

SpecHash == InitHash /\ [][NextHash]_vars

----------------------------------------------------------------------------
(* Failing sends: an executor whose downstream channels may be closed.      *)
(* Output::send returns an error once the channel of the output is closed.  *)

\* number of input messages a run with closing channels consumes
MaxFailMsgs == 2

\* the downstream end of the channel of output o goes away
CloseChannel(o) ==
    /\ status = "running"
    /\ ~output_tab[o].closed
    /\ output_tab' = [output_tab EXCEPT ![o].closed = TRUE]
    /\ UNCHANGED <<dispatchers, pc, barrier, input_log, status, overflow_checks, plan, yielded, core, tasks>>

\* BroadcastDispatcher keeps its outputs in a HashMap: values_mut() yields
\* them in an order the code does not determine
ValuesOrder(i, p) ==
    /\ status = "running"
    /\ dispatchers[i].kind = "Broadcast"
    /\ dispatchers' = [dispatchers EXCEPT ![i].outputs =
                            [k \in DOMAIN @ |-> @[p[k]]]]
    /\ dispatchers' # dispatchers
    /\ UNCHANGED <<output_tab, pc, barrier, input_log, status, overflow_checks, plan, yielded, core, tasks>>

\* the mutations of a barrier in a run with closing channels
FailMutations ==
    { None,
      Some(Stop({12})),
      Some(Update(ForSelf(<<PbDispatcherUpdate(666, <<13>>, <<12>>, Some(PbMapping(11, 13)))>>),
                  EmptyMap, {})) }

CanConsumeFail == Len(input_log) < MaxFailMsgs

NextFail ==
    \/ CanConsumeFail /\ \E chunk \in ExecChunks : DispatchChunk(chunk)
    \/ CanConsumeFail /\ \E watermark \in Watermarks : DispatchWatermark(watermark)
    \/ CanConsumeFail /\ \E mutation \in FailMutations : BarrierPre(mutation)
    \/ BarrierDispatch
    \/ BarrierPost
    \/ \E o \in DOMAIN output_tab : CloseChannel(o)
    \/ \E i \in DOMAIN dispatchers :
            \E p \in Permutations(DOMAIN dispatchers[i].outputs) : ValuesOrder(i, p)

SpecFail == Init /\ [][NextFail]_vars

----------------------------------------------------------------------------
(* Routing on a column that output_indices may not list: an executor with   *)
(* one Hash or CdcTableName dispatcher, given one chunk of two columns.     *)

\* number of rows of a chunk given to these dispatchers
MaxProjRows == 2

\* chunks of inserts and deletes over every pair of datums
ProjChunks ==
    UNION { { Chunk(ops, vis, rows) :
                ops \in [1..n -> {"Insert", "Delete"}],
                vis \in [1..n -> BOOLEAN],
                rows \in [1..n -> Datums \X Datums] } : n \in 0..MaxProjRows }

\* dispatchers that route on column 1 and emit column 0 only, both columns
\* swapped, or both columns as they are
ProjDispatchers ==
    { <<PbDispatcher("Hash", 666, <<11, 12>>, <<1>>, oi, Some(PbMapping(11, 12)), None)>>
        : oi \in {<<0>>, <<1, 0>>, <<0, 1>>} }
    \cup
    { <<PbDispatcher("CdcTablename", 666, <<11>>, <<1>>, oi, None, Some(1))>>
        : oi \in {<<0>>, <<1, 0>>, <<0, 1>>} }

InitProject == \E pbs \in ProjDispatchers : InitWith(pbs, TRUE)

NextProject == input_log = <<>> /\ \E chunk \in ProjChunks : DispatchChunk(chunk)

SpecProject == InitProject /\ [][NextProject]_vars

----------------------------------------------------------------------------
(* The aggregation plan node of the optimizer (frontend,                    *)
(* optimizer/plan_node/generic/agg.rs): whether it may be split into a      *)
(* partial and a total phase, and the agg call of the total phase.          *)

\* number of agg calls of a plan node
MaxAggCalls == 2

\* AggKind is an enum of risingwave_expr; a kind is what agg.rs asks of it:
\* whether it matches each of the three agg_kinds patterns, and what its
\* partial_to_total() returns
AggKind(cannot, order, distinct, total) == [simply_cannot_two_phase |-> cannot, result_unaffected_by_order_by |-> order, result_unaffected_by_distinct |-> distinct, partial_to_total |-> total]

\* kinds of a total phase
TotalKinds == { AggKind(FALSE, TRUE, FALSE, None), AggKind(FALSE, TRUE, TRUE, None) }

AggKinds ==
    { AggKind(c, o, d, t) : c \in BOOLEAN, o \in BOOLEAN, d \in BOOLEAN,
                            t \in {None} \cup {Some(k) : k \in TotalKinds} }

InputRef(index, data_type) == [index |-> index, data_type |-> data_type]

ColumnOrder(column_index, order_type) == [column_index |-> column_index, order_type |-> order_type]

Condition(conjunctions) == [conjunctions |-> conjunctions]

\* Condition::true_cond(): no conjunct
true_cond == Condition(<<>>)

PlanAggCall(agg_kind, return_type, inputs, distinct, order_by, filter, direct_args) == [agg_kind |-> agg_kind, return_type |-> return_type, inputs |-> inputs, distinct |-> distinct, order_by |-> order_by, filter |-> filter, direct_args |-> direct_args]

\* the fields of Agg that can_two_phase_agg reads
Agg(agg_calls, enable_two_phase) == [agg_calls |-> agg_calls, enable_two_phase |-> enable_two_phase]

\* the closure without its test of DISTINCT
TwoPhaseCall_distinct_unchecked(call) ==
    LET agg_kind_ok == ~call.agg_kind.simply_cannot_two_phase
        order_ok == call.agg_kind.result_unaffected_by_order_by \/ call.order_by = <<>>
    IN  agg_kind_ok /\ order_ok

\* the closure of can_two_phase_agg
TwoPhaseCall(call) ==
    LET agg_kind_ok == ~call.agg_kind.simply_cannot_two_phase
        order_ok == call.agg_kind.result_unaffected_by_order_by \/ call.order_by = <<>>
        distinct_ok == call.agg_kind.result_unaffected_by_distinct \/ ~call.distinct
    IN  agg_kind_ok /\ order_ok /\ distinct_ok

RECURSIVE AllCalls(_, _)
\* self.agg_calls.iter().all(..), from call i on
AllCalls(agg_calls, i) ==
    IF i > Len(agg_calls) THEN TRUE
    ELSE IF ~TwoPhaseCall(agg_calls[i]) THEN FALSE
    ELSE AllCalls(agg_calls, i + 1)

can_two_phase_agg(self) ==
    /\ self.enable_two_phase
    /\ self.agg_calls # <<>>
    /\ AllCalls(self.agg_calls, 1)

\* a total call that keeps the FILTER of the partial call
partial_to_total_agg_call_keeps_filter(self, partial_output_idx) ==
    IF self.agg_kind.partial_to_total = None
    THEN [result |-> "panic", call |-> None]
    ELSE [result |-> "Ok",
          call |-> Some([self EXCEPT
                            !.agg_kind = self.agg_kind.partial_to_total[1],
                            !.inputs = <<InputRef(partial_output_idx, self.return_type)>>,
                            !.order_by = <<>>])]

\* PlanAggCall::partial_to_total_agg_call; expect() panics on None
partial_to_total_agg_call(self, partial_output_idx) ==
    IF self.agg_kind.partial_to_total = None
    THEN [result |-> "panic", call |-> None]
    ELSE [result |-> "Ok",
          call |-> Some([self EXCEPT
                            !.agg_kind = self.agg_kind.partial_to_total[1],
                            !.inputs = <<InputRef(partial_output_idx, self.return_type)>>,
                            !.order_by = <<>>,
                            !.filter = true_cond])]

\* the kinds of the calls of a plan node: a kind has a total kind unless it
\* simply cannot be two-phased ("unsupported kinds shouldn't get here")
PlanKinds ==
    { k \in AggKinds :
        /\ (k.partial_to_total = None) = k.simply_cannot_two_phase
        /\ k.partial_to_total # Some(AggKind(FALSE, TRUE, TRUE, None)) }

PlanCalls ==
    { PlanAggCall(k, "Int64", <<InputRef(0, "Int32")>>, d, ob, true_cond, <<>>) :
        k \in PlanKinds, d \in BOOLEAN, ob \in { <<>>, <<ColumnOrder(0, "Ascending")>> } }

Aggs ==
    { Agg(calls, e) : calls \in UNION {[1..n -> PlanCalls] : n \in 0..MaxAggCalls},
                      e \in BOOLEAN }

\* the calls of a partial phase
PartialCalls ==
    { PlanAggCall(k, rt, ins, d, ob, f, da) :
        k \in AggKinds, rt \in {"Int32", "Int64"},
        ins \in { <<>>, <<InputRef(1, "Int32")>>, <<InputRef(1, "Int32"), InputRef(0, "Int64")>> },
        d \in BOOLEAN, ob \in { <<>>, <<ColumnOrder(0, "Ascending")>> },
        f \in { true_cond, Condition(<<"$0 > 1">>) },
        da \in { <<>>, <<"0.5">> } }

\* the optimizer is about to call can_two_phase_agg on a plan node, or
\* partial_to_total_agg_call on an agg call; no dispatch executor runs
InitAgg ==
    /\ plan \in {Some([call |-> "can_two_phase_agg", self |-> agg,
                       partial_output_idx |-> None, result |-> None]) : agg \in Aggs}
            \cup {Some([call |-> "partial_to_total_agg_call", self |-> c,
                        partial_output_idx |-> Some(i), result |-> None]) :
                    c \in PartialCalls, i \in {0, 2}}
    /\ dispatchers = <<>>
    /\ output_tab = <<>>
    /\ pc = "idle"
    /\ barrier = [seq |-> 0, mutation |-> None, outputs_before |-> 0,
                   dispatchers_before |-> <<>>, dispatchers_sent |-> <<>>,
                   previous |-> [mutation |-> None, dispatchers_before |-> <<>>]]
    /\ input_log = <<>>
    /\ status = "running"
    /\ overflow_checks = TRUE
    /\ yielded = <<>>
    /\ core = None
    /\ tasks = None

CanTwoPhaseAgg ==
    /\ plan # None /\ plan[1].call = "can_two_phase_agg" /\ plan[1].result = None
    /\ plan' = Some([plan[1] EXCEPT !.result = Some(can_two_phase_agg(plan[1].self))])
    /\ UNCHANGED <<dispatchers, output_tab, pc, barrier, input_log, status, overflow_checks, yielded, core, tasks>>

PartialToTotalAggCall ==
    /\ plan # None /\ plan[1].call = "partial_to_total_agg_call" /\ plan[1].result = None
    /\ plan' = Some([plan[1] EXCEPT !.result =
            Some(partial_to_total_agg_call(plan[1].self, plan[1].partial_output_idx[1]))])
    /\ UNCHANGED <<dispatchers, output_tab, pc, barrier, input_log, status, overflow_checks, yielded, core, tasks>>

NextAgg ==
    \/ CanTwoPhaseAgg
    \/ PartialToTotalAggCall

SpecAgg == InitAgg /\ [][NextAgg]_vars

----------------------------------------------------------------------------
(* The state of a streaming aggregation (generic/agg.rs): whether the local *)
(* phase is stateless, the materialized-input state table of an agg call,   *)
(* and the dedup tables of the DISTINCT calls.                               *)

\* a kind as the state inference reads it: its name, and whether it matches
\* agg_kinds::single_value_state!() and single_value_state_iff_in_append_only!()
StreamAggKind(name, single_value_state, iff_in_append_only) == [name |-> name, single_value_state |-> single_value_state, single_value_state_iff_in_append_only |-> iff_in_append_only]

\* the input of the plan node: append_only(), stream_key()
PlanInput(append_only, stream_key) == [append_only |-> append_only, stream_key |-> stream_key]

\* the fields of Agg that the state inference reads; group_key.indices()
\* yields the indices in ascending order
StreamAgg(agg_calls, group_key, input) == [agg_calls |-> agg_calls, group_key |-> group_key, input |-> input]

\* all_local_aggs_are_stateless with a closure that knows single_value_state only
all_local_aggs_are_stateless_value_only(self, stream_input_append_only) ==
    \A i \in DOMAIN self.agg_calls : self.agg_calls[i].agg_kind.single_value_state

all_local_aggs_are_stateless(self, stream_input_append_only) ==
    \A i \in DOMAIN self.agg_calls :
        LET c == self.agg_calls[i]
        IN  \/ c.agg_kind.single_value_state
            \/ (c.agg_kind.single_value_state_iff_in_append_only /\ stream_input_append_only)

\* the calls of a local phase: every combination of the two patterns
LocalCalls ==
    { PlanAggCall(StreamAggKind("Other", v, a), "Int64", <<InputRef(1, "Int32")>>, FALSE, <<>>, true_cond, <<>>) :
        v \in BOOLEAN, a \in BOOLEAN }

LocalAggs ==
    { StreamAgg(calls, <<0>>, PlanInput(FALSE, <<2>>)) :
        calls \in UNION {[1..n -> LocalCalls] : n \in 0..MaxAggCalls} }

\* in_fields[idx]: the field of column idx of the input
InField(idx) == [name |-> "input", index |-> idx]

\* Field { data_type: Int64, name: "count_for_agg_call_{call_index}", .. }
CountField(call_index) == [name |-> "count_for_agg_call", index |-> call_index]

\* OrderType::reverse
reverse(order_type) == IF order_type = "Ascending" THEN "Descending" ELSE "Ascending"

get_ordered_group_key(self, window_col_idx) ==
    IF window_col_idx # None
    THEN <<window_col_idx[1]>> \o SelectSeq(self.group_key, LAMBDA i : i # window_col_idx[1])
    ELSE self.group_key

\* a table builder with the group key columns added and ordered; a column
\* of the table is the upstream field it was added from
create_table_builder(self, window_col_idx) ==
    LET group_key == self.group_key
        column_mapping == [idx \in Range(group_key) |-> (CHOOSE i \in DOMAIN group_key : group_key[i] = idx) - 1]
        ordered_group_key == get_ordered_group_key(self, window_col_idx)
    IN  [columns |-> [i \in DOMAIN group_key |-> InField(group_key[i])],
         pk |-> [i \in DOMAIN ordered_group_key |->
                    ColumnOrder(column_mapping[ordered_group_key[i]], "Ascending")],
         included_upstream_indices |-> group_key,
         column_mapping |-> column_mapping,
         table_value_indices |-> {}]

\* the closure add_column of gen_materialized_input_state
add_column(builder, upstream_idx, order_type, is_value) ==
    LET table_col_idx == Len(builder.columns)
        added == IF upstream_idx \in DOMAIN builder.column_mapping THEN builder
                 ELSE [columns |-> Append(builder.columns, InField(upstream_idx)),
                       pk |-> IF order_type # None
                              THEN Append(builder.pk, ColumnOrder(table_col_idx, order_type[1]))
                              ELSE builder.pk,
                       included_upstream_indices |-> Append(builder.included_upstream_indices, upstream_idx),
                       column_mapping |-> [x \in DOMAIN builder.column_mapping \cup {upstream_idx} |->
                                              IF x = upstream_idx THEN table_col_idx
                                              ELSE builder.column_mapping[x]],
                       table_value_indices |-> builder.table_value_indices]
    IN  IF is_value
        THEN [added EXCEPT !.table_value_indices = @ \cup {added.column_mapping[upstream_idx]}]
        ELSE added

RECURSIVE AddColumns(_, _, _)
\* the three loops over add_column, from key i on; a key is <<order type, idx>>
AddColumns(builder, keys, i) ==
    IF i > Len(keys) THEN builder
    ELSE AddColumns(add_column(builder, keys[i][2], keys[i][1], TRUE), keys, i + 1)

gen_materialized_input_state(self, window_col_idx, sort_keys, extra_keys, include_keys) ==
    LET builder == create_table_builder(self, window_col_idx)
        keys == [i \in DOMAIN sort_keys |-> <<Some(sort_keys[i][1]), sort_keys[i][2]>>]
                \o [i \in DOMAIN extra_keys |-> <<Some("Ascending"), extra_keys[i]>>]
                \o [i \in DOMAIN include_keys |-> <<None, include_keys[i]>>]
        built == AddColumns(builder, keys, 1)
    IN  [state |-> "MaterializedInput",
         table |-> [columns |-> built.columns, pk |-> built.pk,
                    value_indices |-> built.table_value_indices,
                    read_prefix_len_hint |-> Len(builder.pk)],
         included_upstream_indices |-> built.included_upstream_indices,
         table_value_indices |-> built.table_value_indices]

\* the kinds of the arm that builds a materialized input state
MaterializedKinds == {"Min", "Max", "FirstValue", "LastValue", "StringAgg", "ArrayAgg", "JsonbAgg", "JsonbObjectAgg"}

\* sort keys that keep the directions of the ORDER BY for every kind
sort_keys_unreversed(agg_call) ==
    IF agg_call.agg_kind.name = "Min" THEN << <<"Ascending", agg_call.inputs[1].index>> >>
    ELSE IF agg_call.agg_kind.name = "Max" THEN << <<"Descending", agg_call.inputs[1].index>> >>
    ELSE [i \in DOMAIN agg_call.order_by |->
            <<agg_call.order_by[i].order_type, agg_call.order_by[i].column_index>>]

\* columns with order requirement in state table
sort_keys(agg_call) ==
    IF agg_call.agg_kind.name = "Min" THEN << <<"Ascending", agg_call.inputs[1].index>> >>
    ELSE IF agg_call.agg_kind.name = "Max" THEN << <<"Descending", agg_call.inputs[1].index>> >>
    ELSE IF agg_call.agg_kind.name = "JsonbObjectAgg"
    THEN [i \in DOMAIN agg_call.order_by |->
            <<agg_call.order_by[i].order_type, agg_call.order_by[i].column_index>>]
    ELSE [i \in DOMAIN agg_call.order_by |->
            << IF agg_call.agg_kind.name = "LastValue"
               THEN reverse(agg_call.order_by[i].order_type)
               ELSE agg_call.order_by[i].order_type,
               agg_call.order_by[i].column_index >>]

\* columns to ensure each row unique
extra_keys(agg_call, in_pks) ==
    IF agg_call.distinct THEN <<agg_call.inputs[1].index>> ELSE in_pks

\* other columns that should be contained in state table
include_keys(agg_call) ==
    IF agg_call.agg_kind.name \in {"Min", "Max"} THEN <<>>
    ELSE [i \in DOMAIN agg_call.inputs |-> agg_call.inputs[i].index]

\* the match of infer_stream_agg_state on one call; the arms rewritten!()
\* and unimplemented_in_stream!() are unreachable!()
AggCallState(self, window_col_idx, agg_call) ==
    IF agg_call.agg_kind.single_value_state_iff_in_append_only /\ self.input.append_only
    THEN [state |-> "Value"]
    ELSE IF agg_call.agg_kind.single_value_state THEN [state |-> "Value"]
    ELSE IF agg_call.agg_kind.name \in MaterializedKinds
    THEN gen_materialized_input_state(self, window_col_idx, sort_keys(agg_call),
                                      extra_keys(agg_call, self.input.stream_key),
                                      include_keys(agg_call))
    ELSE [state |-> "panic"]

infer_stream_agg_state(self, window_col_idx) ==
    LET states == [i \in DOMAIN self.agg_calls |-> AggCallState(self, window_col_idx, self.agg_calls[i])]
    IN  IF \E i \in DOMAIN states : states[i].state = "panic"
        THEN [result |-> "panic", states |-> <<>>]
        ELSE [result |-> "Ok", states |-> states]

\* every DISTINCT call, whatever its first input
DistinctCalls_any_column(self, distinct_col) ==
    LET idx == SelectSeq([i \in DOMAIN self.agg_calls |-> i],
                         LAMBDA i : self.agg_calls[i].distinct)
    IN  [k \in DOMAIN idx |-> idx[k] - 1]

\* the indices (from 0) of the DISTINCT calls whose first input is distinct_col
DistinctCalls(self, distinct_col) ==
    LET idx == SelectSeq([i \in DOMAIN self.agg_calls |-> i],
                         LAMBDA i : self.agg_calls[i].distinct
                                    /\ self.agg_calls[i].inputs[1].index = distinct_col)
    IN  [k \in DOMAIN idx |-> idx[k] - 1]

\* the table of one distinct column
DedupTable(self, window_col_idx, distinct_col) ==
    LET builder == create_table_builder(self, window_col_idx)
        table_col_idx == Len(builder.columns)
        pk == Append(builder.pk, ColumnOrder(table_col_idx, "Ascending"))
        key_cols == Append(builder.included_upstream_indices, distinct_col)
        calls == DistinctCalls(self, distinct_col)
        columns == Append(builder.columns, InField(distinct_col))
                   \o [k \in DOMAIN calls |-> CountField(calls[k])]
    IN  [columns |-> columns, pk |-> pk,
         value_indices |-> Len(key_cols) .. (Len(columns) - 1),
         read_prefix_len_hint |-> Len(pk)]

\* the HashMap from distinct column to table
infer_distinct_dedup_tables(self, window_col_idx) ==
    LET distinct_cols == { self.agg_calls[i].inputs[1].index :
                            i \in {j \in DOMAIN self.agg_calls : self.agg_calls[j].distinct} }
    IN  [distinct_col \in distinct_cols |-> DedupTable(self, window_col_idx, distinct_col)]

\* the kinds of the calls of a streaming aggregation: the named kinds, Min
\* and Max also as kinds with a single value in an append-only stream, a
\* kind with a single value, and a kind that has no state in a stream
StateKinds ==
    { StreamAggKind(n, FALSE, FALSE) : n \in MaterializedKinds }
        \cup { StreamAggKind(n, FALSE, TRUE) : n \in {"Min", "Max"} }
        \cup { StreamAggKind("Other", TRUE, FALSE), StreamAggKind("Other", FALSE, FALSE) }

StateCalls ==
    { PlanAggCall(k, "Int64", ins, d, ob, true_cond, <<>>) :
        k \in StateKinds,
        ins \in { <<InputRef(1, "Int32")>>, <<InputRef(0, "Int32")>>,
                  <<InputRef(2, "Int32"), InputRef(1, "Int32")>> },
        d \in BOOLEAN,
        ob \in { <<>>, <<ColumnOrder(1, "Ascending")>>,
                 <<ColumnOrder(2, "Descending"), ColumnOrder(0, "Ascending")>>,
                 <<ColumnOrder(2, "Descending"), ColumnOrder(2, "Ascending")>> } }

\* the group key of a plan node with its window column, if it has one
GroupKeys ==
    { <<gk, w>> \in { <<>>, <<0>>, <<0, 1>> } \X {None, Some(0), Some(1)} :
        w = None \/ w[1] \in Range(gk) }

\* plan nodes of one agg call
StateAggs ==
    { StreamAgg(<<c>>, g[1], PlanInput(ao, pk)) :
        c \in StateCalls, g \in GroupKeys, ao \in BOOLEAN, pk \in { <<2>>, <<0, 2>> } }

DedupCalls ==
    { PlanAggCall(StreamAggKind("Other", TRUE, FALSE), "Int64", ins, d, <<>>, true_cond, <<>>) :
        ins \in { <<InputRef(0, "Int32")>>, <<InputRef(1, "Int32")>>,
                  <<InputRef(2, "Int32"), InputRef(1, "Int32")>> },
        d \in BOOLEAN }
        \cup { PlanAggCall(StreamAggKind("Other", TRUE, FALSE), "Int64", <<>>, FALSE, <<>>, true_cond, <<>>) }

DedupAggs ==
    { StreamAgg(calls, g[1], PlanInput(FALSE, <<2>>)) :
        calls \in UNION {[1..n -> DedupCalls] : n \in 0..(MaxAggCalls + 1)},
        g \in { <<>>, <<0>>, <<0, 1>> } \X {None} }

\* the window column that goes with the group key of a plan node
WindowsOf(self) == { g[2] : g \in {h \in GroupKeys : h[1] = self.group_key} }

\* the optimizer is about to infer the state of a streaming aggregation
InitStreamAgg ==
    /\ plan \in {Some([call |-> "all_local_aggs_are_stateless", self |-> agg,
                       stream_input_append_only |-> ao, result |-> None]) :
                    agg \in LocalAggs, ao \in BOOLEAN}
            \cup UNION {{Some([call |-> "infer_stream_agg_state", self |-> agg,
                               window_col_idx |-> w, result |-> None]) :
                            w \in WindowsOf(agg)} : agg \in StateAggs}
            \cup UNION {{Some([call |-> "infer_distinct_dedup_tables", self |-> agg,
                               window_col_idx |-> w, result |-> None]) :
                            w \in WindowsOf(agg)} : agg \in DedupAggs}
    /\ dispatchers = <<>>
    /\ output_tab = <<>>
    /\ pc = "idle"
    /\ barrier = [seq |-> 0, mutation |-> None, outputs_before |-> 0,
                   dispatchers_before |-> <<>>, dispatchers_sent |-> <<>>,
                   previous |-> [mutation |-> None, dispatchers_before |-> <<>>]]
    /\ input_log = <<>>
    /\ status = "running"
    /\ overflow_checks = TRUE
    /\ yielded = <<>>
    /\ core = None
    /\ tasks = None

AllLocalAggsAreStateless ==
    /\ plan # None /\ plan[1].call = "all_local_aggs_are_stateless" /\ plan[1].result = None
    /\ plan' = Some([plan[1] EXCEPT !.result =
            Some(all_local_aggs_are_stateless(plan[1].self, plan[1].stream_input_append_only))])
    /\ UNCHANGED <<dispatchers, output_tab, pc, barrier, input_log, status, overflow_checks, yielded, core, tasks>>

InferStreamAggState ==
    /\ plan # None /\ plan[1].call = "infer_stream_agg_state" /\ plan[1].result = None
    /\ plan' = Some([plan[1] EXCEPT !.result =
            Some(infer_stream_agg_state(plan[1].self, plan[1].window_col_idx))])
    /\ UNCHANGED <<dispatchers, output_tab, pc, barrier, input_log, status, overflow_checks, yielded, core, tasks>>

InferDistinctDedupTables ==
    /\ plan # None /\ plan[1].call = "infer_distinct_dedup_tables" /\ plan[1].result = None
    /\ plan' = Some([plan[1] EXCEPT !.result =
            Some(infer_distinct_dedup_tables(plan[1].self, plan[1].window_col_idx))])
    /\ UNCHANGED <<dispatchers, output_tab, pc, barrier, input_log, status, overflow_checks, yielded, core, tasks>>

NextStreamAgg ==
    \/ AllLocalAggsAreStateless
    \/ InferStreamAggState
    \/ InferDistinctDedupTables

SpecStreamAgg == InitStreamAgg /\ [][NextStreamAgg]_vars

----------------------------------------------------------------------------
(* The catalog manager of the meta node                                    *)
(* (src/src/meta/src/manager/catalog/mod.rs): the creation procedures of   *)
(* streaming jobs.  Every procedure locks CatalogManager.core for its      *)
(* whole body, except cancel_create_table_procedure, which locks it twice. *)
(* A BTreeMap is a function, a HashSet a set.  The DatabaseManager and     *)
(* UserManager methods the procedures call live in catalog/database.rs,    *)
(* catalog/user.rs and catalog/utils.rs.                                   *)

\* BTreeMap::insert
MapInsert(map, k, v) == [x \in DOMAIN map \cup {k} |-> IF x = k THEN v ELSE map[x]]

\* BTreeMap::remove
MapRemove(map, k) == [x \in DOMAIN map \ {k} |-> map[x]]

\* what a procedure returns ("Ok", "Err", or "panic" for a failed assert!)
\* and the core it leaves behind
Returns(result, c) == [result |-> result, core |-> c]

\* the (database_id, schema_id, name) of a relation
RelationKey(relation) == <<relation.database_id, relation.schema_id, relation.name>>

\* DatabaseManager::ensure_database_id
ensure_database_id(database, database_id) == database_id \in database.databases

\* DatabaseManager::ensure_schema_id
ensure_schema_id(database, schema_id) == schema_id \in database.schemas

\* DatabaseManager::ensure_table_id
ensure_table_id(database, table_id) == table_id \in DOMAIN database.tables

\* DatabaseManager::ensure_table_view_or_source_id
ensure_table_view_or_source_id(database, id) == id \in DOMAIN database.tables \cup DOMAIN database.sources

\* UserManager::ensure_user_id
ensure_user_id(user, user_id) == user_id \in user.user_info

\* whether no relation of the map has the key
NameFree(map, key) == \A id \in DOMAIN map : RelationKey(map[id]) # key

\* DatabaseManager::check_relation_name_duplicated: Ok (TRUE) when no
\* table, source, sink or index has the key
check_relation_name_duplicated(database, key) ==
    /\ NameFree(database.tables, key)
    /\ NameFree(database.sources, key)
    /\ NameFree(database.sinks, key)
    /\ NameFree(database.indexes, key)

\* DatabaseManager::has_in_progress_creation
has_in_progress_creation(database, key) == key \in database.in_progress_creation_tracker

\* DatabaseManager::mark_creating
mark_creating(database, key) == [database EXCEPT !.in_progress_creation_tracker = @ \cup {key}]

\* DatabaseManager::unmark_creating
unmark_creating(database, key) == [database EXCEPT !.in_progress_creation_tracker = @ \ {key}]

\* DatabaseManager::mark_creating_streaming_job
mark_creating_streaming_job(database, table_id, key) == [database EXCEPT !.in_progress_creation_streaming_job = MapInsert(@, table_id, key)]

\* DatabaseManager::unmark_creating_streaming_job
unmark_creating_streaming_job(database, table_id) == [database EXCEPT !.in_progress_creation_streaming_job = MapRemove(@, table_id)]

\* `*map.entry(id).or_insert(0) += num`
CountUp(map, id, num) == MapInsert(map, id, (IF id \in DOMAIN map THEN map[id] ELSE 0) + num)

\* Entry::Occupied: `*o.get_mut() -= num` and the entry removed at zero.
\* (Entry::Vacant is unreachable!(): see Vacant.)
CountDown(map, id, num) ==
    IF id \notin DOMAIN map THEN map
    ELSE IF map[id] - num = 0 THEN MapRemove(map, id)
    ELSE [map EXCEPT ![id] = @ - num]

\* DatabaseManager::increase_ref_count
increase_ref_count(database, relation_id) == [database EXCEPT !.relation_ref_count = CountUp(@, relation_id, 1)]

\* DatabaseManager::decrease_ref_count
decrease_ref_count(database, relation_id) == [database EXCEPT !.relation_ref_count = CountDown(@, relation_id, 1)]

\* UserManager::increase_ref_count; increase_ref(user_id) is num = 1
user_increase_ref_count(user, user_id, num) == [user EXCEPT !.catalog_create_ref_count = CountUp(@, user_id, num)]

\* UserManager::decrease_ref_count; decrease_ref(user_id) is num = 1
user_decrease_ref_count(user, user_id, num) == [user EXCEPT !.catalog_create_ref_count = CountDown(@, user_id, num)]

\* `for &dependent_relation_id in dependent_relations { increase_ref_count }`
RECURSIVE increase_ref_counts(_, _)
increase_ref_counts(database, ids) ==
    IF ids = <<>> THEN database
    ELSE increase_ref_counts(increase_ref_count(database, Head(ids)), Tail(ids))

\* `for &dependent_relation_id in dependent_relations { decrease_ref_count }`
RECURSIVE decrease_ref_counts(_, _)
decrease_ref_counts(database, ids) ==
    IF ids = <<>> THEN database
    ELSE decrease_ref_counts(decrease_ref_count(database, Head(ids)), Tail(ids))

\* whether one of the decrease_ref_count calls of the loop finds no entry
\* (Entry::Vacant => unreachable!())
RECURSIVE Vacant(_, _)
Vacant(database, ids) ==
    /\ ids # <<>>
    /\ \/ Head(ids) \notin DOMAIN database.relation_ref_count
       \/ Vacant(decrease_ref_count(database, Head(ids)), Tail(ids))

\* utils::refcnt_inc_connection: an error when the connection is not in the
\* catalog (any more)
refcnt_inc_connection(database, connection_id) ==
    IF connection_id = None THEN [result |-> "Ok", database |-> database]
    ELSE IF connection_id[1] \in DOMAIN database.connections
    THEN [result |-> "Ok", database |-> increase_ref_count(database, connection_id[1])]
    ELSE [result |-> "Err", database |-> database]

\* utils::refcnt_dec_connection
refcnt_dec_connection(database, connection_id) ==
    IF connection_id = None THEN database ELSE decrease_ref_count(database, connection_id[1])

\* the connection of refcnt_dec_connection as a list of ids to decrease
ConnectionIds(connection_id) == IF connection_id = None THEN <<>> ELSE <<connection_id[1]>>

\* CatalogManager::start_create_source_procedure
start_create_source_procedure(c, source) ==
    LET key == RelationKey(source)
        marked == [c EXCEPT !.database = mark_creating(@, key),
                            !.user = user_increase_ref_count(@, source.owner, 1)]
        conn == refcnt_inc_connection(marked.database, source.connection_id)
    IN  IF ~ensure_database_id(c.database, source.database_id) THEN Returns("Err", c)
        ELSE IF ~ensure_schema_id(c.database, source.schema_id) THEN Returns("Err", c)
        ELSE IF ~check_relation_name_duplicated(c.database, key) THEN Returns("Err", c)
        ELSE IF ~ensure_user_id(c.user, source.owner) THEN Returns("Err", c)
        ELSE IF has_in_progress_creation(c.database, key) THEN Returns("Err", c)
        ELSE IF conn.result # "Ok" THEN Returns("Err", marked)
        ELSE Returns("Ok", [marked EXCEPT !.database = conn.database])

\* CatalogManager::cancel_create_source_procedure
cancel_create_source_procedure(c, source) ==
    LET key == RelationKey(source)
    IN  IF source.id \in DOMAIN c.database.sources \/ ~has_in_progress_creation(c.database, key)
        THEN Returns("panic", c)
        ELSE IF source.owner \notin DOMAIN c.user.catalog_create_ref_count
                \/ Vacant(c.database, ConnectionIds(source.connection_id))
        THEN Returns("panic", c)
        ELSE Returns("Ok", [c EXCEPT
                !.database = refcnt_dec_connection(unmark_creating(@, key), source.connection_id),
                !.user = user_decrease_ref_count(@, source.owner, 1)])

\* CatalogManager::start_create_table_procedure_with_source
start_create_table_procedure_with_source(c, source, table) ==
    LET source_key == RelationKey(source)
        mview_key == RelationKey(table)
        marked == [c EXCEPT !.database = mark_creating_streaming_job(
                        mark_creating(mark_creating(@, source_key), mview_key), table.id, mview_key)]
        counted == [marked EXCEPT !.user = user_increase_ref_count(@, source.owner, 2)]
        conn == refcnt_inc_connection(counted.database, source.connection_id)
    IN  IF ~ensure_database_id(c.database, source.database_id) THEN Returns("Err", c)
        ELSE IF ~ensure_schema_id(c.database, source.schema_id) THEN Returns("Err", c)
        ELSE IF ~check_relation_name_duplicated(c.database, source_key) THEN Returns("Err", c)
        ELSE IF ~ensure_user_id(c.user, source.owner) THEN Returns("Err", c)
        ELSE IF source.owner # table.owner THEN Returns("panic", c)
        ELSE IF has_in_progress_creation(c.database, source_key)
                \/ has_in_progress_creation(c.database, mview_key) THEN Returns("Err", c)
        ELSE IF table.dependent_relations # <<>> THEN Returns("Err", marked)
        ELSE IF conn.result # "Ok" THEN Returns("Err", counted)
        ELSE Returns("Ok", [counted EXCEPT !.database = conn.database])

\* CatalogManager::cancel_create_table_procedure_with_source
cancel_create_table_procedure_with_source(c, source, table) ==
    LET source_key == RelationKey(source)
        table_key == RelationKey(table)
    IN  IF source.id \in DOMAIN c.database.sources \/ table.id \in DOMAIN c.database.tables
        THEN Returns("panic", c)
        ELSE IF source.owner \notin DOMAIN c.user.catalog_create_ref_count
                \/ Vacant(c.database, ConnectionIds(source.connection_id))
        THEN Returns("panic", c)
        ELSE Returns("Ok", [c EXCEPT
                !.database = refcnt_dec_connection(
                    unmark_creating_streaming_job(
                        unmark_creating(unmark_creating(@, source_key), table_key), table.id),
                    source.connection_id),
                !.user = user_decrease_ref_count(@, source.owner, 2)])

\* CatalogManager::start_create_index_procedure
start_create_index_procedure(c, index, index_table) ==
    LET key == RelationKey(index)
    IN  IF ~ensure_database_id(c.database, index.database_id) THEN Returns("Err", c)
        ELSE IF ~ensure_schema_id(c.database, index.schema_id) THEN Returns("Err", c)
        ELSE IF ~ensure_table_id(c.database, index.primary_table_id) THEN Returns("Err", c)
        ELSE IF ~check_relation_name_duplicated(c.database, key) THEN Returns("Err", c)
        ELSE IF ~ensure_user_id(c.user, index.owner) THEN Returns("Err", c)
        ELSE IF index.owner # index_table.owner THEN Returns("panic", c)
        ELSE IF index_table.dependent_relations # <<index.primary_table_id>> THEN Returns("panic", c)
        ELSE IF has_in_progress_creation(c.database, key) THEN Returns("Err", c)
        ELSE Returns("Ok", [c EXCEPT
                !.database = increase_ref_counts(
                    mark_creating_streaming_job(mark_creating(@, key), index_table.id, key),
                    index_table.dependent_relations),
                !.user = user_increase_ref_count(@, index.owner, 2)])

\* cancel_create_index_procedure giving back one of the two user references
cancel_create_index_procedure_one_ref(c, index, index_table) ==
    LET key == RelationKey(index)
    IN  IF index.id \in DOMAIN c.database.indexes THEN Returns("panic", c)
        ELSE IF index.owner \notin DOMAIN c.user.catalog_create_ref_count
                \/ Vacant(c.database, index_table.dependent_relations)
        THEN Returns("panic", c)
        ELSE Returns("Ok", [c EXCEPT
                !.database = decrease_ref_counts(
                    unmark_creating_streaming_job(unmark_creating(@, key), index_table.id),
                    index_table.dependent_relations),
                !.user = user_decrease_ref_count(@, index.owner, 1)])

\* CatalogManager::cancel_create_index_procedure
cancel_create_index_procedure(c, index, index_table) ==
    LET key == RelationKey(index)
    IN  IF index.id \in DOMAIN c.database.indexes THEN Returns("panic", c)
        ELSE IF index.owner \notin DOMAIN c.user.catalog_create_ref_count
                \/ Vacant(c.database, index_table.dependent_relations)
        THEN Returns("panic", c)
        ELSE Returns("Ok", [c EXCEPT
                !.database = decrease_ref_counts(
                    unmark_creating_streaming_job(unmark_creating(@, key), index_table.id),
                    index_table.dependent_relations),
                !.user = user_decrease_ref_count(@, index.owner, 2)])

\* whether every dependent relation of the sink is a table or a source
RECURSIVE ensure_dependent_relations(_, _)
ensure_dependent_relations(database, ids) ==
    \/ ids = <<>>
    \/ /\ ensure_table_view_or_source_id(database, Head(ids))
       /\ ensure_dependent_relations(database, Tail(ids))

\* CatalogManager::start_create_sink_procedure
start_create_sink_procedure(c, sink) ==
    LET key == RelationKey(sink)
        marked == [c EXCEPT
                !.database = increase_ref_counts(
                    mark_creating_streaming_job(mark_creating(@, key), sink.id, key),
                    sink.dependent_relations),
                !.user = user_increase_ref_count(@, sink.owner, 1)]
        conn == refcnt_inc_connection(marked.database, sink.connection_id)
    IN  IF ~ensure_database_id(c.database, sink.database_id) THEN Returns("Err", c)
        ELSE IF ~ensure_schema_id(c.database, sink.schema_id) THEN Returns("Err", c)
        ELSE IF ~ensure_dependent_relations(c.database, sink.dependent_relations) THEN Returns("Err", c)
        ELSE IF ~check_relation_name_duplicated(c.database, key) THEN Returns("Err", c)
        ELSE IF ~ensure_user_id(c.user, sink.owner) THEN Returns("Err", c)
        ELSE IF has_in_progress_creation(c.database, key) THEN Returns("Err", c)
        ELSE IF conn.result # "Ok" THEN Returns("Err", marked)
        ELSE Returns("Ok", [marked EXCEPT !.database = conn.database])

\* CatalogManager::cancel_create_sink_procedure
cancel_create_sink_procedure(c, sink) ==
    LET key == RelationKey(sink)
        ids == sink.dependent_relations \o ConnectionIds(sink.connection_id)
    IN  IF sink.id \in DOMAIN c.database.sinks THEN Returns("panic", c)
        ELSE IF sink.owner \notin DOMAIN c.user.catalog_create_ref_count \/ Vacant(c.database, ids)
        THEN Returns("panic", c)
        ELSE Returns("Ok", [c EXCEPT
                !.database = refcnt_dec_connection(
                    decrease_ref_counts(
                        unmark_creating_streaming_job(unmark_creating(@, key), sink.id),
                        sink.dependent_relations),
                    sink.connection_id),
                !.user = user_decrease_ref_count(@, sink.owner, 1)])

\* CatalogManager::start_create_table_procedure (CREATE MATERIALIZED VIEW,
\* no internal tables); commit_ok is whether the meta store takes the
\* transaction of commit_meta!
start_create_table_procedure(c, table, commit_ok) ==
    LET key == RelationKey(table)
    IN  IF ~ensure_database_id(c.database, table.database_id) THEN Returns("Err", c)
        ELSE IF ~ensure_schema_id(c.database, table.schema_id) THEN Returns("Err", c)
        ELSE IF ~ensure_dependent_relations(c.database, table.dependent_relations) THEN Returns("Err", c)
        ELSE IF ~ensure_user_id(c.user, table.owner) THEN Returns("Err", c)
        ELSE IF ~check_relation_name_duplicated(c.database, key) THEN Returns("Err", c)
        ELSE IF table.id \in DOMAIN c.database.tables THEN Returns("panic", c)
        ELSE IF ~commit_ok THEN Returns("Err", c)
        ELSE Returns("Ok", [c EXCEPT
                !.database = increase_ref_counts(
                    [@ EXCEPT !.tables = MapInsert(@, table.id, table)],
                    table.dependent_relations),
                !.user = user_increase_ref_count(@, table.owner, 1)])

\* CatalogManager::cancel_create_table_procedure, its first lock scope: the
\* table is looked up and removed from the table map.  table is the local
\* the scope evaluates to (None when the function has returned).
cancel_create_table_procedure_remove(c, table_id, commit_ok) ==
    IF table_id \notin DOMAIN c.database.tables
    THEN [result |-> "Ok", core |-> c, table |-> None]
    ELSE IF c.database.tables[table_id].stream_job_status # "Creating"
    THEN [result |-> "Err", core |-> c, table |-> None]
    ELSE IF ~commit_ok
    THEN [result |-> "Err", core |-> c, table |-> None]
    ELSE [result |-> "Ok",
          core |-> [c EXCEPT !.database.tables = MapRemove(@, table_id)],
          table |-> Some(c.database.tables[table_id])]

\* CatalogManager::cancel_create_table_procedure, its second lock scope:
\* the reference counts of the removed table are given back
cancel_create_table_procedure_decrease(c, table) ==
    IF table.owner \notin DOMAIN c.user.catalog_create_ref_count
       \/ Vacant(c.database, table.dependent_relations)
    THEN Returns("panic", c)
    ELSE Returns("Ok", [c EXCEPT
            !.user = user_decrease_ref_count(@, table.owner, 1),
            !.database = decrease_ref_counts(@, table.dependent_relations)])

\* CatalogManager::drop_connection
drop_connection(c, conn_id, commit_ok) ==
    IF conn_id \notin DOMAIN c.database.connections THEN Returns("Err", c)
    ELSE IF conn_id \in DOMAIN c.database.relation_ref_count THEN Returns("Err", c)
    ELSE IF ~commit_ok THEN Returns("Err", c)
    ELSE IF c.database.connections[conn_id].owner \notin DOMAIN c.user.catalog_create_ref_count
    THEN Returns("panic", c)
    ELSE Returns("Ok", [c EXCEPT
            !.database.connections = MapRemove(@, conn_id),
            !.user = user_decrease_ref_count(@, c.database.connections[conn_id].owner, 1)])

\* CatalogManager::start_create_stream_job_procedure
start_create_stream_job_procedure(c, stream_job, commit_ok) ==
    CASE stream_job.kind = "MaterializedView" ->
            start_create_table_procedure(c, stream_job.table[1], commit_ok)
      [] stream_job.kind = "Sink" ->
            start_create_sink_procedure(c, stream_job.sink[1])
      [] stream_job.kind = "Index" ->
            start_create_index_procedure(c, stream_job.index[1], stream_job.table[1])
      [] stream_job.kind = "Table" /\ stream_job.source # None ->
            start_create_table_procedure_with_source(c, stream_job.source[1], stream_job.table[1])
      [] stream_job.kind = "Table" /\ stream_job.source = None ->
            start_create_table_procedure(c, stream_job.table[1], commit_ok)
      [] stream_job.kind = "Source" ->
            start_create_source_procedure(c, stream_job.source[1])

(* The catalog the procedures run on, and the jobs they are called with. *)

\* a Source of database 1, schema 2, owned by user 10
Source(id, name, connection_id) == [id |-> id, database_id |-> 1, schema_id |-> 2, name |-> name, owner |-> 10, connection_id |-> connection_id]

\* a Table of database 1, schema 2, owned by user 10
Table(id, name, dependent_relations, stream_job_status) == [id |-> id, database_id |-> 1, schema_id |-> 2, name |-> name, owner |-> 10, dependent_relations |-> dependent_relations, stream_job_status |-> stream_job_status]

\* a Sink of schema 2, owned by user 10
Sink(id, database_id, name, dependent_relations, connection_id) == [id |-> id, database_id |-> database_id, schema_id |-> 2, name |-> name, owner |-> 10, dependent_relations |-> dependent_relations, connection_id |-> connection_id]

\* an Index of database 1, schema 2, owned by user 10
Index(id, name, primary_table_id) == [id |-> id, database_id |-> 1, schema_id |-> 2, name |-> name, owner |-> 10, primary_table_id |-> primary_table_id]

\* a StreamingJob; id is the id of its first relation
StreamingJob(kind, id, source, table, sink, index) == [kind |-> kind, id |-> id, source |-> source, table |-> table, sink |-> sink, index |-> index]

\* The jobs: a source and a sink on connection 4, an index on table 3, a
\* table with a source, a second sink with the name of the first, a source
\* with the name of table 3, a sink of a database that does not exist, a
\* materialized view on table 3, and a table with a source that depends on
\* table 3.
StreamingJobs ==
    { StreamingJob("Source", 5, Some(Source(5, "s", Some(4))), None, None, None),
      StreamingJob("Sink", 6, None, None, Some(Sink(6, 1, "k", <<3>>, Some(4))), None),
      StreamingJob("Index", 7, None, Some(Table(8, "i", <<3>>, "Creating")), None, Some(Index(7, "i", 3))),
      StreamingJob("Table", 9, Some(Source(9, "w", Some(4))), Some(Table(11, "w", <<>>, "Creating")), None, None),
      StreamingJob("Sink", 12, None, None, Some(Sink(12, 1, "k", <<3>>, None)), None),
      StreamingJob("Source", 13, Some(Source(13, "t", None)), None, None, None),
      StreamingJob("Sink", 14, None, None, Some(Sink(14, 99, "z", <<>>, None)), None),
      StreamingJob("MaterializedView", 15, None, Some(Table(15, "m", <<3>>, "Creating")), None, None),
      StreamingJob("Table", 16, Some(Source(16, "v", None)), Some(Table(17, "v", <<3>>, "Creating")), None, None) }

\* the jobs of one kind
JobsOf(kind) == {job \in StreamingJobs : job.kind = kind}

\* CatalogManager::new, after table 3 ("t") and connection 4 were created
\* by user 10 in database 1, schema 2
InitCatalog ==
    /\ core = [database |-> [databases |-> {1},
                             schemas |-> {2},
                             tables |-> MapInsert(EmptyMap, 3, Table(3, "t", <<>>, "Created")),
                             sources |-> EmptyMap,
                             sinks |-> EmptyMap,
                             indexes |-> EmptyMap,
                             connections |-> MapInsert(EmptyMap, 4, [id |-> 4, owner |-> 10]),
                             in_progress_creation_tracker |-> {},
                             in_progress_creation_streaming_job |-> EmptyMap,
                             relation_ref_count |-> EmptyMap],
               user |-> [user_info |-> {10},
                         catalog_create_ref_count |-> MapInsert(EmptyMap, 10, 2)]]
    /\ tasks = [started |-> {}, cancelling |-> None,
                last |-> [op |-> "new", id |-> 0, result |-> "Ok"]]
    /\ plan = None
    /\ dispatchers = <<>>
    /\ output_tab = <<>>
    /\ pc = "idle"
    /\ barrier = [seq |-> 0, mutation |-> None, outputs_before |-> 0,
                   dispatchers_before |-> <<>>, dispatchers_sent |-> <<>>,
                   previous |-> [mutation |-> None, dispatchers_before |-> <<>>]]
    /\ input_log = <<>>
    /\ status = "running"
    /\ overflow_checks = TRUE
    /\ yielded = <<>>

\* a start procedure has run under the core lock and returned r
Started(op, job, r) ==
    /\ core' = r.core
    /\ tasks' = [tasks EXCEPT !.started = IF r.result = "Ok" THEN @ \cup {job.id} ELSE @,
                              !.last = [op |-> op, id |-> job.id, result |-> r.result]]
    /\ UNCHANGED <<dispatchers, output_tab, pc, barrier, input_log, status, overflow_checks, plan, yielded>>

\* a cancel procedure of a job whose start returned Ok has run under the
\* core lock and returned r
Cancelled(op, job, r) ==
    /\ core' = r.core
    /\ tasks' = [tasks EXCEPT !.started = @ \ {job.id},
                              !.last = [op |-> op, id |-> job.id, result |-> r.result]]
    /\ UNCHANGED <<dispatchers, output_tab, pc, barrier, input_log, status, overflow_checks, plan, yielded>>

StartCreateSourceProcedure ==
    \E job \in JobsOf("Source") :
        Started("start_create_source_procedure", job,
                start_create_source_procedure(core, job.source[1]))

CancelCreateSourceProcedure ==
    \E job \in JobsOf("Source") :
        /\ job.id \in tasks.started
        /\ Cancelled("cancel_create_source_procedure", job,
                     cancel_create_source_procedure(core, job.source[1]))

StartCreateTableProcedureWithSource ==
    \E job \in JobsOf("Table") :
        Started("start_create_table_procedure_with_source", job,
                start_create_table_procedure_with_source(core, job.source[1], job.table[1]))

CancelCreateTableProcedureWithSource ==
    \E job \in JobsOf("Table") :
        /\ job.id \in tasks.started
        /\ Cancelled("cancel_create_table_procedure_with_source", job,
                     cancel_create_table_procedure_with_source(core, job.source[1], job.table[1]))

StartCreateIndexProcedure ==
    \E job \in JobsOf("Index") :
        Started("start_create_index_procedure", job,
                start_create_index_procedure(core, job.index[1], job.table[1]))

CancelCreateIndexProcedure ==
    \E job \in JobsOf("Index") :
        /\ job.id \in tasks.started
        /\ Cancelled("cancel_create_index_procedure", job,
                     cancel_create_index_procedure(core, job.index[1], job.table[1]))

StartCreateSinkProcedure ==
    \E job \in JobsOf("Sink") :
        Started("start_create_sink_procedure", job,
                start_create_sink_procedure(core, job.sink[1]))

CancelCreateSinkProcedure ==
    \E job \in JobsOf("Sink") :
        /\ job.id \in tasks.started
        /\ Cancelled("cancel_create_sink_procedure", job,
                     cancel_create_sink_procedure(core, job.sink[1]))

StartCreateTableProcedure ==
    \E job \in JobsOf("MaterializedView"), commit_ok \in BOOLEAN :
        Started("start_create_table_procedure", job,
                start_create_table_procedure(core, job.table[1], commit_ok))

\* cancel_create_table_procedure up to the end of its first lock scope: the
\* function has returned, or holds `table` and waits for the lock again
CancelCreateTableProcedureRemove ==
    /\ tasks.cancelling = None
    /\ \E table_id \in {3, 15}, commit_ok \in BOOLEAN :
        LET r == cancel_create_table_procedure_remove(core, table_id, commit_ok)
        IN  /\ core' = r.core
            /\ tasks' = [tasks EXCEPT
                    !.started = IF r.table # None THEN @ \ {table_id} ELSE @,
                    !.cancelling = r.table,
                    !.last = [op |-> "cancel_create_table_procedure", id |-> table_id,
                              result |-> IF r.table # None THEN "locking" ELSE r.result]]
    /\ UNCHANGED <<dispatchers, output_tab, pc, barrier, input_log, status, overflow_checks, plan, yielded>>

\* cancel_create_table_procedure from its second `self.core.lock().await`
CancelCreateTableProcedureDecrease ==
    /\ tasks.cancelling # None
    /\ LET r == cancel_create_table_procedure_decrease(core, tasks.cancelling[1])
       IN  /\ core' = r.core
           /\ tasks' = [tasks EXCEPT
                    !.cancelling = None,
                    !.last = [op |-> "cancel_create_table_procedure",
                              id |-> tasks.cancelling[1].id, result |-> r.result]]
    /\ UNCHANGED <<dispatchers, output_tab, pc, barrier, input_log, status, overflow_checks, plan, yielded>>

DropConnection ==
    \E conn_id \in {4}, commit_ok \in BOOLEAN :
        LET r == drop_connection(core, conn_id, commit_ok)
        IN  /\ core' = r.core
            /\ tasks' = [tasks EXCEPT !.last = [op |-> "drop_connection", id |-> conn_id, result |-> r.result]]
            /\ UNCHANGED <<dispatchers, output_tab, pc, barrier, input_log, status, overflow_checks, plan, yielded>>

NextCatalog ==
    \/ StartCreateSourceProcedure
    \/ CancelCreateSourceProcedure
    \/ StartCreateTableProcedureWithSource
    \/ CancelCreateTableProcedureWithSource
    \/ StartCreateIndexProcedure
    \/ CancelCreateIndexProcedure
    \/ StartCreateSinkProcedure
    \/ CancelCreateSinkProcedure
    \/ StartCreateTableProcedure
    \/ CancelCreateTableProcedureRemove
    \/ CancelCreateTableProcedureDecrease
    \/ DropConnection

SpecCatalog == InitCatalog /\ [][NextCatalog]_vars

----------------------------------------------------------------------------
(* Properties. *)

\* the outputs the dispatchers hold
CurrentOutputs == UNION {Range(dispatchers[i].outputs) : i \in DOMAIN dispatchers}

\* how many messages of an output's data come from input message seq
Copies(data, kind, seq) ==
    Cardinality({k \in DOMAIN data : data[k].kind = kind /\ data[k].seq = seq})

\* the messages of data are in the order of the input messages they come from
InInputOrder(data) ==
    \A k1, k2 \in DOMAIN data : k1 < k2 => data[k1].seq < data[k2].seq

\* C1: when a barrier has been dispatched (all sends succeeding), every output
\* that is current between the pre and the post phase has received exactly
\* one copy of it, as its latest message, and its messages are in the order
\* of the input.
C1_BroadcastBarrier ==
    pc = "sent" =>
        \A o \in CurrentOutputs :
            LET data == output_tab[o].data
            IN  /\ Copies(data, "Barrier", barrier.seq) = 1
                /\ data[Len(data)] = BarrierMsg(barrier.seq)
                /\ InInputOrder(data)

\* C1 witness: an Update barrier has been dispatched to an output that had
\* messages before it and to an output the barrier's pre phase added
C1_Witness ==
    /\ pc = "sent"
    /\ barrier.mutation # None
    /\ barrier.mutation[1].type = "Update"
    /\ \E o1, o2 \in CurrentOutputs :
            /\ Len(output_tab[o1].data) >= 2
            /\ o2 > barrier.outputs_before
            /\ output_tab[o2].data = <<BarrierMsg(barrier.seq)>>

----------------------------------------------------------------------------
(* Hash dispatch_data, read off what the outputs received. *)

\* a chunk was the last message consumed, and every dispatcher handled it
AfterChunk ==
    /\ status = "running" /\ pc = "idle"
    /\ input_log # <<>> /\ input_log[Len(input_log)].kind = "Chunk"

LastChunk == input_log[Len(input_log)].body

HashDispatcherIndexes == {j \in DOMAIN dispatchers : dispatchers[j].kind = "Hash"}

ActorOf(o) == output_tab[o].actor_id

ActorsOf(outputs) == {ActorOf(o) : o \in Range(outputs)}

\* the chunks output o received for input message seq
ChunksFor(o, seq) ==
    {k \in DOMAIN output_tab[o].data :
        output_tab[o].data[k].kind = "Chunk" /\ output_tab[o].data[k].seq = seq}

\* output o received row i of input message seq as a visible row
Sees(o, seq, i) == \E k \in ChunksFor(o, seq) : output_tab[o].data[k].body.vis[i]

\* the op output o received at row i of input message seq ("" when it got none)
OpSeen(o, seq, i) ==
    IF \E k \in ChunksFor(o, seq) : i <= Len(output_tab[o].data[k].body.ops)
    THEN LET k == CHOOSE x \in ChunksFor(o, seq) : TRUE
         IN  output_tab[o].data[k].body.ops[i]
    ELSE ""

\* the actor the mapping of dispatcher d gives row i of chunk
Target(d, chunk, i) == d.hash_mapping[compute_chunk(chunk, d.keys)[i] + 1]

\* C2 as stated: each visible row is seen by exactly the outputs of the actor
\* its vnode maps to, invisible rows by none; the outputs' visibilities are
\* pairwise disjoint and their union is the input visibility.
C2_AsStated ==
    AfterChunk =>
        \A j \in HashDispatcherIndexes :
            LET d == dispatchers[j]
                c == LastChunk
                n == Len(input_log)
            IN  /\ \A i \in DOMAIN c.vis : \A o \in Range(d.outputs) :
                        Sees(o, n, i) <=> (c.vis[i] /\ Target(d, c, i) = ActorOf(o))
                /\ \A i \in DOMAIN c.vis : \A o1, o2 \in Range(d.outputs) :
                        o1 # o2 => ~(Sees(o1, n, i) /\ Sees(o2, n, i))
                /\ \A i \in DOMAIN c.vis :
                        c.vis[i] <=> \E o \in Range(d.outputs) : Sees(o, n, i)

\* C2: after a Hash dispatcher has handled a chunk, an output sees a row as
\* visible iff the row is visible in the input and hash_mapping[vnode] is the
\* output's actor; outputs of distinct actors see disjoint rows; the rows seen
\* by some output are the visible input rows whose vnode maps to the actor of
\* a current output, which is every visible row when the mapping only names
\* current outputs.
C2_HashMapping ==
    AfterChunk =>
        \A j \in HashDispatcherIndexes :
            LET d == dispatchers[j]
                c == LastChunk
                n == Len(input_log)
            IN  /\ \A i \in DOMAIN c.vis : \A o \in Range(d.outputs) :
                        Sees(o, n, i) <=> (c.vis[i] /\ Target(d, c, i) = ActorOf(o))
                /\ \A i \in DOMAIN c.vis : \A o1, o2 \in Range(d.outputs) :
                        ActorOf(o1) # ActorOf(o2) => ~(Sees(o1, n, i) /\ Sees(o2, n, i))
                /\ \A i \in DOMAIN c.vis :
                        (\E o \in Range(d.outputs) : Sees(o, n, i))
                            <=> (c.vis[i] /\ Target(d, c, i) \in ActorsOf(d.outputs))
                /\ Range(d.hash_mapping) \subseteq ActorsOf(d.outputs) =>
                        \A i \in DOMAIN c.vis :
                            c.vis[i] <=> \E o \in Range(d.outputs) : Sees(o, n, i)

\* C2 witness: after a scale, a chunk with an invisible row and visible rows
\* of both vnodes has reached the two outputs of the Hash dispatcher
C2_Witness ==
    /\ AfterChunk
    /\ barrier.seq > 0
    /\ \E i \in DOMAIN LastChunk.vis : ~LastChunk.vis[i]
    /\ \E j \in HashDispatcherIndexes :
            \E o1, o2 \in Range(dispatchers[j].outputs) :
                /\ ActorOf(o1) = 11 /\ ActorOf(o2) = 13
                /\ \E i \in DOMAIN LastChunk.vis : Sees(o1, Len(input_log), i)
                /\ \E i \in DOMAIN LastChunk.vis : Sees(o2, Len(input_log), i)

\* every update pair of the chunk is visible as a whole or invisible as a whole
WholePairs(chunk) ==
    \A i \in DOMAIN chunk.ops :
        chunk.ops[i] = "UpdateDelete" => chunk.vis[i] = chunk.vis[i + 1]

\* C3 as stated: of a visible UpdateDelete/UpdateInsert pair, the output of
\* the actor both rows are routed to receives UpdateDelete then UpdateInsert;
\* when the rows are routed to different actors, the one receives a Delete and
\* the other an Insert.
C3_UpdatePair ==
    AfterChunk /\ WholePairs(LastChunk) =>
        \A j \in HashDispatcherIndexes :
            LET d == dispatchers[j]
                c == LastChunk
                n == Len(input_log)
            IN  \A i \in DOMAIN c.ops : \A o \in Range(d.outputs) :
                    c.ops[i] = "UpdateDelete" /\ c.vis[i] =>
                        IF Target(d, c, i) = Target(d, c, i + 1)
                        THEN ActorOf(o) = Target(d, c, i) =>
                                /\ OpSeen(o, n, i) = "UpdateDelete"
                                /\ OpSeen(o, n, i + 1) = "UpdateInsert"
                        ELSE /\ ActorOf(o) = Target(d, c, i) => OpSeen(o, n, i) = "Delete"
                             /\ ActorOf(o) = Target(d, c, i + 1) =>
                                    OpSeen(o, n, i + 1) = "Insert"

----------------------------------------------------------------------------
(* The configuration of the executor, and what a barrier's mutation makes  *)
(* of it, at the level of sets of downstream actors.                       *)

DispatcherIdsOf(disps) == {disps[j].dispatcher_id : j \in DOMAIN disps}

\* per dispatcher id: the variant, the downstream actors, the vnode mapping
Conf(disps) ==
    [id \in DispatcherIdsOf(disps) |->
        LET d == disps[CHOOSE j \in DOMAIN disps : disps[j].dispatcher_id = id]
        IN  [kind |-> d.kind, actors |-> ActorsOf(d.outputs),
             hash_mapping |-> d.hash_mapping]]

KindOf(type) ==
    CASE type = "NoShuffle" -> "Simple"
      [] type = "CdcTablename" -> "CdcTableName"
      [] OTHER -> type

\* the configuration of newly built dispatchers
ConfOfNew(pbs) ==
    [id \in {pbs[j].dispatcher_id : j \in DOMAIN pbs} |->
        LET pb == pbs[CHOOSE j \in DOMAIN pbs : pbs[j].dispatcher_id = id]
        IN  [kind |-> KindOf(pb.type), actors |-> Range(pb.downstream_actor_id),
             hash_mapping |-> IF pb.type = "Hash" THEN to_expanded(pb.hash_mapping[1])
                              ELSE <<>>]]

Merge(f, g) ==
    [k \in DOMAIN f \cup DOMAIN g |-> IF k \in DOMAIN f THEN f[k] ELSE g[k]]

UpdatesFor(updates, id) == {j \in DOMAIN updates : updates[j].dispatcher_id = id}

\* every addition of every update, then every removal, and the mapping of the
\* last update that addresses a Hash dispatcher
WithUpdates(conf, updates) ==
    [id \in DOMAIN conf |->
        LET mine == UpdatesFor(updates, id)
            added == UNION {Range(updates[j].added_downstream_actor_id) : j \in mine}
            removed == UNION {Range(updates[j].removed_downstream_actor_id) : j \in mine}
            last == CHOOSE j \in mine : \A k \in mine : k <= j
        IN  IF mine = {} THEN conf[id]
            ELSE [conf[id] EXCEPT
                    !.actors = (@ \cup added) \ removed,
                    !.hash_mapping = IF conf[id].kind = "Hash"
                                     THEN to_expanded(updates[last].hash_mapping[1])
                                     ELSE @]]

Without(conf, actor_ids) ==
    IF actor_id \in actor_ids THEN conf
    ELSE [id \in DOMAIN conf |-> [conf[id] EXCEPT !.actors = @ \ actor_ids]]

\* the entry of a per-actor map for this executor's actor, empty when absent
Mine(map) == IF actor_id \in DOMAIN map THEN map[actor_id] ELSE <<>>

Swept(conf) == [id \in {k \in DOMAIN conf : conf[k].actors # {}} |-> conf[id]]

\* the configuration after a barrier with this mutation has been handled
ExpectedConf(conf, mutation) ==
    IF mutation = None THEN conf
    ELSE LET m == mutation[1]
         IN  CASE m.type = "Add" ->
                    Swept(Merge(conf, ConfOfNew(Mine(m.adds))))
               [] m.type = "Update" ->
                    Swept(Without(
                        WithUpdates(Merge(conf, ConfOfNew(Mine(m.actor_new_dispatchers))),
                                    Mine(m.dispatchers)),
                        m.dropped_actors))
               [] m.type = "Stop" -> Swept(Without(conf, m.stops))
               [] OTHER -> Swept(conf)

\* the executor is between two messages, after at least one barrier
AfterBarrier == status = "running" /\ pc = "idle" /\ barrier.seq > 0

\* the chunks and watermarks of the input from position seq on reached only
\* outputs that the dispatchers hold now
RoutedToCurrent(seq) ==
    \A o \in DOMAIN output_tab : \A k \in DOMAIN output_tab[o].data :
        output_tab[o].data[k].seq > seq => o \in CurrentOutputs

\* C4: between two messages the dispatchers, their output sets and their
\* mappings are those the last barrier's whole mutation made of the ones
\* there were when that barrier arrived (the initial ones before any
\* barrier): the messages after a barrier are routed with the complete new
\* configuration, those before it with the complete old one, and nothing
\* changes between barriers.
C4_Atomic ==
    status = "running" /\ pc = "idle" =>
        /\ Conf(dispatchers) = ExpectedConf(Conf(barrier.dispatchers_before), barrier.mutation)
        /\ RoutedToCurrent(barrier.seq)

\* C4 witness: a chunk, then an Update barrier that changed a dispatcher's
\* outputs, then a chunk
C4_Witness ==
    /\ AfterChunk
    /\ barrier.seq = 2
    /\ input_log[1].kind = "Chunk"
    /\ barrier.mutation # None
    /\ barrier.mutation[1].type = "Update"
    /\ Conf(dispatchers) # Conf(barrier.dispatchers_before)
    /\ \E o \in CurrentOutputs : o > barrier.outputs_before /\ Len(output_tab[o].data) = 2

----------------------------------------------------------------------------
(* The sweep of empty dispatchers. *)

NoEmptyDispatcher == \A j \in DOMAIN dispatchers : ~is_empty(dispatchers[j])

----------------------------------------------------------------------------
(* What the outputs of an updated dispatcher receive. *)

\* the dispatcher updates the last barrier carries for this actor
BarrierUpdates ==
    IF barrier.mutation # None /\ barrier.mutation[1].type = "Update"
    THEN Mine(barrier.mutation[1].dispatchers)
    ELSE <<>>

\* the dispatcher an update addresses, as the barrier was sent through it
SentDispatcher(update) ==
    barrier.dispatchers_sent[find_dispatcher(barrier.dispatchers_sent, update.dispatcher_id)]

SeqsOf(o) == {output_tab[o].data[k].seq : k \in DOMAIN output_tab[o].data}

FirstBarrier(o) == output_tab[o].data[1] = BarrierMsg(barrier.seq)

LastBarrier(o) ==
    output_tab[o].data[Len(output_tab[o].data)] = BarrierMsg(barrier.seq)

\* the output was created by the pre phase of the last barrier
AddedByBarrier(o) == o > barrier.outputs_before

----------------------------------------------------------------------------
(* The Simple dispatcher's single output. *)

SimpleDispatcherIndexes == {j \in DOMAIN dispatchers : dispatchers[j].kind = "Simple"}

\* the outputs the dispatcher with this id had when the last barrier arrived
\* (none when there was no such dispatcher)
OutputsBefore(id) ==
    LET j == find_dispatcher(barrier.dispatchers_before, id)
    IN  IF j = 0 THEN <<>> ELSE barrier.dispatchers_before[j].outputs

\* the last barrier left the dispatcher alone, or migrated it: its updates
\* add one output in all and remove the old output's actor, not the new one's
Migration(id) ==
    LET mine == UpdatesFor(BarrierUpdates, id)
        added == UNION {Range(BarrierUpdates[j].added_downstream_actor_id) : j \in mine}
        removed == UNION {Range(BarrierUpdates[j].removed_downstream_actor_id) : j \in mine}
    IN  \/ mine = {}
        \/ /\ Cardinality(mine) = 1
           /\ \A j \in mine : Len(BarrierUpdates[j].added_downstream_actor_id) = 1
           /\ ActorsOf(OutputsBefore(id)) \subseteq removed
           /\ added \cap removed = {}

\* C7 as stated: between barriers, after any mutations, every Simple
\* dispatcher has exactly one output.
C7_AsStated ==
    status = "running" /\ pc = "idle" =>
        \A j \in SimpleDispatcherIndexes : Len(dispatchers[j].outputs) = 1

\* C7: a Simple dispatcher never has more than two outputs, and between
\* barriers never none; between barriers it has exactly one if it is new or
\* had one before the last barrier and that barrier left it alone or migrated
\* it.  Otherwise (an Update that adds without removing) it keeps two, and no
\* chunk or watermark is then handled: one is handled only when every Simple
\* dispatcher has exactly one output.
C7_SimpleOneOutput ==
    /\ status = "running" =>
            \A j \in SimpleDispatcherIndexes : Len(dispatchers[j].outputs) <= 2
    /\ status = "running" /\ pc = "idle" =>
            \A j \in SimpleDispatcherIndexes :
                LET d == dispatchers[j]
                IN  /\ Len(d.outputs) >= 1
                    /\ Len(OutputsBefore(d.dispatcher_id)) <= 1 /\ Migration(d.dispatcher_id)
                            => Len(d.outputs) = 1
    /\ status = "running" /\ pc = "idle" /\ input_log # <<>>
            /\ input_log[Len(input_log)].kind \in {"Chunk", "Watermark"} =>
            \A j \in SimpleDispatcherIndexes : Len(dispatchers[j].outputs) = 1

\* C7 witness: a migration barrier has replaced the output of a Simple
\* dispatcher, and the next chunk has reached the new output
C7_Witness ==
    /\ AfterChunk
    /\ \E j \in SimpleDispatcherIndexes :
            LET d == dispatchers[j]
            IN  /\ UpdatesFor(BarrierUpdates, d.dispatcher_id) # {}
                /\ Migration(d.dispatcher_id)
                /\ Len(d.outputs) = 1
                /\ AddedByBarrier(d.outputs[1])
                /\ Len(output_tab[d.outputs[1]].data) = 2

----------------------------------------------------------------------------
(* The vnode mapping of a Hash dispatcher. *)

\* every entry of a Hash dispatcher's mapping is the actor of one of its outputs
Membership(conf) ==
    \A id \in DOMAIN conf :
        conf[id].kind = "Hash" => Range(conf[id].hash_mapping) \subseteq conf[id].actors

\* C8 as stated: between barriers, after any mutations, every entry of a
\* Hash dispatcher's mapping is the actor of one of its outputs.
C8_AsStated == status = "running" /\ pc = "idle" => Membership(Conf(dispatchers))

\* C8: between barriers every entry of a Hash dispatcher's mapping is the
\* actor of one of its outputs, provided the last barrier's mutation, applied
\* to the sets of downstream actors there were (added joined, removed, stopped
\* and dropped taken away, mappings replaced), leaves every mapping entry
\* inside the resulting set.
C8_Membership ==
    status = "running" /\ pc = "idle"
        /\ Membership(ExpectedConf(Conf(barrier.dispatchers_before), barrier.mutation))
        => Membership(Conf(dispatchers))

\* C8 witness: an Update has moved the vnodes of a removed output to an added
\* one, and the new mapping names the outputs of the dispatcher
C8_Witness ==
    /\ AfterBarrier
    /\ \E j \in HashDispatcherIndexes :
            LET d == dispatchers[j]
            IN  /\ UpdatesFor(BarrierUpdates, d.dispatcher_id) # {}
                /\ Range(d.hash_mapping) = ActorsOf(d.outputs)
                /\ ActorsOf(d.outputs) # ActorsOf(OutputsBefore(d.dispatcher_id))
                /\ Cardinality(ActorsOf(d.outputs)) = 2

\* the mapping the dispatcher with this id had when the last barrier arrived
MappingBefore(id) ==
    barrier.dispatchers_before[find_dispatcher(barrier.dispatchers_before, id)].hash_mapping

\* the mapping the last barrier's updates give the dispatcher with this id
NewMapping(id) ==
    LET mine == UpdatesFor(BarrierUpdates, id)
    IN  to_expanded(BarrierUpdates[CHOOSE j \in mine : \A k \in mine : k <= j].hash_mapping[1])

\* the rows of chunk seq of the input that the outputs saw are those that
\* hash_mapping gives them
RoutedWith(hash_mapping, d, seq) ==
    LET c == input_log[seq].body
        vnodes == compute_chunk(c, d.keys)
    IN  \A i \in DOMAIN c.vis : \A o \in Range(d.outputs) :
            Sees(o, seq, i) <=> (c.vis[i] /\ hash_mapping[vnodes[i] + 1] = ActorOf(o))

\* C9: a Hash dispatcher keeps the mapping it had when the barrier arrived
\* through the pre phase and the broadcast of the barrier, and a chunk right
\* before the barrier was routed with it; once the barrier is handled the
\* mapping is the Update's, and a chunk after the barrier is routed with that.
C9_PostPhaseRemap ==
    /\ status = "running" /\ pc \in {"pre_done", "sent"} =>
            \A j \in HashDispatcherIndexes :
                LET d == dispatchers[j]
                IN  find_dispatcher(barrier.dispatchers_before, d.dispatcher_id) # 0 =>
                        /\ d.hash_mapping = MappingBefore(d.dispatcher_id)
                        /\ barrier.seq > 1 /\ input_log[barrier.seq - 1].kind = "Chunk" =>
                                RoutedWith(MappingBefore(d.dispatcher_id),
                                    barrier.dispatchers_before[
                                        find_dispatcher(barrier.dispatchers_before,
                                                        d.dispatcher_id)],
                                    barrier.seq - 1)
    /\ status = "running" /\ pc = "idle" =>
            \A j \in HashDispatcherIndexes :
                LET d == dispatchers[j]
                IN  UpdatesFor(BarrierUpdates, d.dispatcher_id) # {} =>
                        /\ d.hash_mapping = NewMapping(d.dispatcher_id)
                        /\ AfterChunk => RoutedWith(NewMapping(d.dispatcher_id), d,
                                                    Len(input_log))

\* C9 witness: a chunk, an Update barrier with a mapping that differs from
\* the old one, and a chunk of which the added output has seen a row
C9_Witness ==
    /\ AfterChunk
    /\ barrier.seq = 2
    /\ input_log[1].kind = "Chunk"
    /\ \E j \in HashDispatcherIndexes :
            LET d == dispatchers[j]
            IN  /\ UpdatesFor(BarrierUpdates, d.dispatcher_id) # {}
                /\ d.hash_mapping # MappingBefore(d.dispatcher_id)
                /\ \E o \in Range(d.outputs) : \E i \in DOMAIN LastChunk.vis :
                        AddedByBarrier(o) /\ Sees(o, Len(input_log), i)

----------------------------------------------------------------------------
(* Dispatcher ids. *)

\* the dispatchers the last barrier adds for this actor
BarrierNewDispatchers ==
    IF barrier.mutation = None THEN <<>>
    ELSE IF barrier.mutation[1].type = "Add" THEN Mine(barrier.mutation[1].adds)
    ELSE IF barrier.mutation[1].type = "Update"
         THEN Mine(barrier.mutation[1].actor_new_dispatchers)
    ELSE <<>>

\* an added id is already present, or repeated within the added list
IntroducesDuplicate ==
    LET new == BarrierNewDispatchers
    IN  \/ \E j \in DOMAIN new :
                new[j].dispatcher_id \in DispatcherIdsOf(barrier.dispatchers_before)
        \/ \E j, k \in DOMAIN new : j # k /\ new[j].dispatcher_id = new[k].dispatcher_id

\* C10: while the executor has not failed an assertion, the ids of its
\* dispatchers are pairwise distinct; a barrier that adds (constructible)
\* dispatchers with an id already present or repeated ends in an assertion
\* failure.
C10_UniqueIds ==
    /\ status # "panic" => all_unique(dispatchers)
    /\ barrier.seq > 0 /\ IntroducesDuplicate => status = "panic"

\* C10 witness: a barrier has added a dispatcher whose id was present, and
\* the executor has failed the assertion
C10_Witness ==
    /\ status = "panic"
    /\ IntroducesDuplicate
    /\ Len(dispatchers) > Len(barrier.dispatchers_before)
    /\ \E j \in DOMAIN BarrierNewDispatchers :
            BarrierNewDispatchers[j].dispatcher_id
                \in DispatcherIdsOf(barrier.dispatchers_before)

----------------------------------------------------------------------------
(* Add followed by Stop. *)

\* the downstream actors of the dispatchers an Add brings to this actor
AddedActors(m) ==
    UNION {Range(Mine(m.adds)[j].downstream_actor_id) : j \in DOMAIN Mine(m.adds)}

\* the barrier just handled stops exactly the actors that the barrier before
\* it added dispatchers for
AddThenStop ==
    /\ AfterBarrier
    /\ barrier.mutation # None /\ barrier.previous.mutation # None
    /\ barrier.mutation[1].type = "Stop"
    /\ barrier.previous.mutation[1].type = "Add"
    /\ Mine(barrier.previous.mutation[1].adds) # <<>>
    /\ barrier.mutation[1].stops = AddedActors(barrier.previous.mutation[1])

\* the configuration before the Add barrier
BeforeAdd == Conf(barrier.previous.dispatchers_before)

\* the actors that are outputs of some dispatcher of a configuration
ActorsIn(conf) == UNION {conf[id].actors : id \in DOMAIN conf}

\* C11 as stated: from any configuration, a barrier with Add{A} followed by
\* a barrier with Stop{A} leaves the dispatchers and each dispatcher's
\* output set as they were before the Add.
C11_AsStated == AddThenStop => Conf(dispatchers) = BeforeAdd

\* C11: a barrier with Add{A} followed by a barrier with Stop{A} leaves the
\* dispatchers and each dispatcher's output set as they were before the Add,
\* provided no actor of A was an output of a dispatcher before the Add and
\* no dispatcher was empty then; an actor of A that an older dispatcher
\* also holds is removed from that dispatcher too.
C11_RoundTrip ==
    /\ AddThenStop
    /\ ActorsIn(BeforeAdd) \cap barrier.mutation[1].stops = {}
    /\ BeforeAdd = Swept(BeforeAdd)
    => Conf(dispatchers) = BeforeAdd

C11_Witness ==
    /\ AddThenStop
    /\ ActorsIn(BeforeAdd) \cap barrier.mutation[1].stops = {}
    /\ BeforeAdd = Swept(BeforeAdd)
    /\ Conf(dispatchers) = BeforeAdd
    /\ DOMAIN BeforeAdd # {}

----------------------------------------------------------------------------
(* An Update that adds and removes the same actors. *)

\* the last barrier has been handled and nothing has been consumed since
BarrierJustHandled == AfterBarrier /\ Len(input_log) = barrier.seq

\* the update adds and removes the same set of actors, and nothing else of
\* the barrier touches the outputs its dispatcher had
AddsWhatItRemoves(u) ==
    /\ Range(u.added_downstream_actor_id) = Range(u.removed_downstream_actor_id)
    /\ Cardinality(UpdatesFor(BarrierUpdates, u.dispatcher_id)) = 1
    /\ barrier.mutation[1].dropped_actors \cap ActorsOf(OutputsBefore(u.dispatcher_id)) = {}

\* the outputs the dispatcher with this id has now (none when it is gone)
OutputsNow(id) ==
    LET j == find_dispatcher(dispatchers, id)
    IN  IF j = 0 THEN <<>> ELSE dispatchers[j].outputs

\* none of the update's actors was an output of its dispatcher, which had
\* an output, when the barrier arrived
AddsFresh(u) ==
    /\ Range(u.added_downstream_actor_id) \cap ActorsOf(OutputsBefore(u.dispatcher_id)) = {}
    /\ OutputsBefore(u.dispatcher_id) # <<>>

\* C12 as stated: an Update whose added set equals its removed set leaves
\* the dispatcher's output set as it was before the barrier, and each output
\* received the barrier exactly once.
C12_AsStated ==
    BarrierJustHandled =>
        \A j \in DOMAIN BarrierUpdates :
            LET u == BarrierUpdates[j]
            IN  AddsWhatItRemoves(u) =>
                    /\ ActorsOf(OutputsNow(u.dispatcher_id))
                            = ActorsOf(OutputsBefore(u.dispatcher_id))
                    /\ \A o \in Range(OutputsBefore(u.dispatcher_id)) :
                            Copies(output_tab[o].data, "Barrier", barrier.seq) = 1

\* C12: an Update whose added set equals its removed set, none of these
\* actors being an output of the dispatcher when the barrier arrives, leaves
\* the dispatcher as it was (the same outputs in the same order; only the
\* mapping of a Hash dispatcher is replaced); each of its outputs received
\* the barrier exactly once, and so did each added output, which the
\* dispatcher no longer holds.
C12_FreshNoOp ==
    BarrierJustHandled =>
        \A j \in DOMAIN BarrierUpdates :
            LET u == BarrierUpdates[j]
                id == u.dispatcher_id
                now == dispatchers[find_dispatcher(dispatchers, id)]
                before == barrier.dispatchers_before[
                              find_dispatcher(barrier.dispatchers_before, id)]
            IN  AddsWhatItRemoves(u) /\ AddsFresh(u) =>
                    /\ find_dispatcher(dispatchers, id) # 0
                    /\ now = [before EXCEPT !.hash_mapping =
                                    IF before.kind = "Hash" THEN NewMapping(id) ELSE @]
                    /\ \A o \in Range(before.outputs) :
                            Copies(output_tab[o].data, "Barrier", barrier.seq) = 1
                    /\ \A o \in (barrier.outputs_before + 1)..Len(output_tab) :
                            /\ output_tab[o].data = <<BarrierMsg(barrier.seq)>>
                            /\ o \notin CurrentOutputs

C12_Witness ==
    /\ BarrierJustHandled
    /\ \E j \in DOMAIN BarrierUpdates :
            /\ AddsWhatItRemoves(BarrierUpdates[j]) /\ AddsFresh(BarrierUpdates[j])
            /\ BarrierUpdates[j].added_downstream_actor_id # <<>>
            /\ OutputsNow(BarrierUpdates[j].dispatcher_id)
                    = OutputsBefore(BarrierUpdates[j].dispatcher_id)
            /\ Len(output_tab) > barrier.outputs_before

----------------------------------------------------------------------------
(* A send that fails. *)

\* this step consumes a chunk or a watermark
ConsumesData ==
    /\ Len(input_log') = Len(input_log) + 1
    /\ input_log'[Len(input_log')].kind \in {"Chunk", "Watermark"}

\* this step sends a message to output o
Got(o) == Len(output_tab'[o].data) > Len(output_tab[o].data)

\* the send to output j of dispatcher i fails, and no output after it and
\* no dispatcher after i is sent anything in this step
FailsAt(i, j) ==
    /\ output_tab[dispatchers[i].outputs[j]].closed
    /\ \A k \in DOMAIN dispatchers[i].outputs : k > j => ~Got(dispatchers[i].outputs[k])
    /\ \A i2 \in DOMAIN dispatchers : i2 > i =>
            \A k \in DOMAIN dispatchers[i2].outputs : ~Got(dispatchers[i2].outputs[k])

\* what a step that dispatches a chunk or watermark does when a send fails
FailFast ==
    /\ status # "running" => UNCHANGED vars
    /\ ConsumesData =>
            /\ status' = "error" =>
                    \E i \in DOMAIN dispatchers : \E j \in DOMAIN dispatchers[i].outputs :
                        FailsAt(i, j)
            /\ status' = "running" /\ input_log'[Len(input_log')].kind = "Chunk" =>
                    \A i \in DOMAIN dispatchers : dispatchers[i].kind = "Broadcast" =>
                        \A k \in DOMAIN dispatchers[i].outputs :
                            /\ Got(dispatchers[i].outputs[k])
                            /\ ~output_tab[dispatchers[i].outputs[k]].closed
            /\ \A o \in DOMAIN output_tab :
                    Len(output_tab'[o].data) <= Len(output_tab[o].data) + 1

\* C13: when a send fails while a chunk or watermark is dispatched, no later
\* output of that dispatcher and no later dispatcher is sent the message,
\* the dispatch returns the error (a dispatch that succeeds has sent the
\* chunk to every output of a Broadcast dispatcher, none of them closed),
\* and once the executor has ended with an error nothing changes any more:
\* no further input is consumed and nothing is sent.
C13_FailFast == [][FailFast]_vars

\* C13 witness: the dispatch of a chunk or watermark ended with an error
\* after one output had received the message, and an open output that a
\* dispatcher still holds did not receive it
C13_Witness ==
    /\ status = "error" /\ pc = "idle"
    /\ input_log # <<>>
    /\ input_log[Len(input_log)].kind \in {"Chunk", "Watermark"}
    /\ \E o1, o2 \in CurrentOutputs :
            /\ Copies(output_tab[o1].data, input_log[Len(input_log)].kind, Len(input_log)) = 1
            /\ ~output_tab[o2].closed
            /\ Copies(output_tab[o2].data, input_log[Len(input_log)].kind, Len(input_log)) = 0
            /\ \E o3 \in CurrentOutputs : output_tab[o3].closed

\* the dispatch of the last barrier met an output whose send failed
BarrierSendFailed == status = "error" /\ pc = "pre_done"

\* C14: when the send of a barrier to one output fails, the barrier is still
\* sent to every remaining output, of the same dispatcher and of the others,
\* before the error is propagated: once the dispatch has ended with the
\* error, every output whose channel is open has received the barrier.
C14_BestEffortBarrier ==
    BarrierSendFailed =>
        \A o \in CurrentOutputs :
            ~output_tab[o].closed =>
                Copies(output_tab[o].data, "Barrier", barrier.seq) = 1

----------------------------------------------------------------------------
(* Watermarks. *)

\* the columns of the input chunks and watermarks
Columns == {0, 1}

\* the timestamps of the watermarks on column col among the messages of log
WatermarkVals(log, col) ==
    LET on == SelectSeq(log, LAMBDA msg : msg.kind = "Watermark" /\ msg.body.col_idx = col)
    IN  [k \in DOMAIN on |-> on[k].body.val]

NonDecreasing(vals) == \A k1, k2 \in DOMAIN vals : k1 < k2 => vals[k1] <= vals[k2]

\* C15: if the watermarks of the input are non-decreasing on every column,
\* then the watermarks every output has received are non-decreasing on every
\* output column, whatever chunks, barriers and mutations lie between them.
C15_WatermarkMonotone ==
    (\A col \in Columns : NonDecreasing(WatermarkVals(input_log, col))) =>
        \A o \in DOMAIN output_tab : \A col \in Columns :
            NonDecreasing(WatermarkVals(output_tab[o].data, col))

\* C15 witness: an output has received a watermark, then the barrier of an
\* Update, then a watermark with a larger timestamp on the same column
C15_Witness ==
    /\ BarrierUpdates # <<>>
    /\ \E o \in DOMAIN output_tab : \E col \in Columns :
            /\ WatermarkVals(output_tab[o].data, col) = <<0, 1>>
            /\ Len(output_tab[o].data) = 3
            /\ output_tab[o].data[2] = BarrierMsg(barrier.seq)

\* the last input message is a watermark
AfterWatermark ==
    /\ pc = "idle" /\ input_log # <<>>
    /\ input_log[Len(input_log)].kind = "Watermark"

\* what output o received for the last input message
ReceivedLast(o) ==
    SelectSeq(output_tab[o].data, LAMBDA msg : msg.seq = Len(input_log))

\* every output of dispatcher d received the last input message, a
\* watermark, once and with the column's position in output_indices, or, if
\* output_indices does not list the column, received nothing for it
WatermarkServed(d) ==
    LET w == input_log[Len(input_log)].body
        hits == {j \in DOMAIN d.output_indices : d.output_indices[j] = w.col_idx}
    IN  \A o \in Range(d.outputs) :
            IF hits = {} THEN ReceivedLast(o) = <<>>
            ELSE \E j \in hits :
                    ReceivedLast(o) = <<WatermarkMsg(Len(input_log),
                                            [col_idx |-> j - 1, val |-> w.val])>>

\* no output of dispatcher d received anything for the last input message
Unserved(d) == \A o \in Range(d.outputs) : ReceivedLast(o) = <<>>

\* the Simple dispatchers that do not have exactly one output
NotExactlyOne ==
    {i \in DOMAIN dispatchers :
        dispatchers[i].kind = "Simple" /\ Len(dispatchers[i].outputs) # 1}

\* C16 as stated: for every variant, dispatch_watermark succeeds, every
\* output of a dispatcher whose output_indices list the watermark's column
\* receives the remapped watermark exactly once, and the outputs of a
\* dispatcher whose output_indices do not list it receive nothing.
C16_AsStated ==
    AfterWatermark =>
        /\ status = "running"
        /\ \A i \in DOMAIN dispatchers : WatermarkServed(dispatchers[i])

\* C16: dispatch_watermark of Hash, Broadcast, RoundRobin, CdcTableName and
\* of a Simple dispatcher with exactly one output succeeds, every output of
\* a dispatcher whose output_indices list the column receives the remapped
\* watermark exactly once, and the outputs of one whose output_indices do
\* not list it receive nothing; a Simple dispatcher that does not have
\* exactly one output panics, whether its output_indices list the column or
\* not, and neither its outputs nor those of later dispatchers receive the
\* watermark.
C16_DispatchWatermark ==
    AfterWatermark =>
        IF NotExactlyOne = {}
        THEN /\ status = "running"
             /\ \A i \in DOMAIN dispatchers : WatermarkServed(dispatchers[i])
        ELSE /\ status = "panic"
             /\ \A i \in DOMAIN dispatchers :
                    IF \E k \in NotExactlyOne : k <= i
                    THEN Unserved(dispatchers[i])
                    ELSE WatermarkServed(dispatchers[i])

\* C16 witness: a watermark on a column that one dispatcher projects to
\* another position and a second dispatcher does not project at all
C16_Witness ==
    /\ AfterWatermark /\ status = "running"
    /\ \E i1, i2 \in DOMAIN dispatchers :
            /\ dispatchers[i1].outputs # <<>> /\ dispatchers[i2].outputs # <<>>
            /\ \A o \in Range(dispatchers[i1].outputs) :
                    /\ ReceivedLast(o) # <<>>
                    /\ ReceivedLast(o)[1].body.col_idx
                            # input_log[Len(input_log)].body.col_idx
            /\ \A o \in Range(dispatchers[i2].outputs) : ReceivedLast(o) = <<>>

----------------------------------------------------------------------------
(* Update pairs of which only the UpdateInsert is visible. *)

\* the rows of the chunk that are an invisible UpdateDelete directly
\* followed by a visible UpdateInsert
HalfVisiblePairs(chunk) ==
    {i \in DOMAIN chunk.ops :
        /\ chunk.ops[i] = "UpdateDelete" /\ ~chunk.vis[i]
        /\ i < Len(chunk.ops) /\ chunk.ops[i + 1] = "UpdateInsert" /\ chunk.vis[i + 1]}

\* C17: when a Hash dispatcher is given a chunk in which an UpdateDelete is
\* invisible and the UpdateInsert right after it is visible, the dispatch
\* does not fail, and the UpdateInsert is compared against the vnode of that
\* UpdateDelete: the output that sees the UpdateInsert receives it as an
\* UpdateInsert exactly if both rows have the same vnode.
C17_InvisibleUpdateDelete ==
    /\ pc = "idle" /\ input_log # <<>>
    /\ input_log[Len(input_log)].kind = "Chunk"
    /\ HalfVisiblePairs(LastChunk) # {}
    => /\ status = "running"
       /\ \A j \in HashDispatcherIndexes : \A i \in HalfVisiblePairs(LastChunk) :
            LET vnodes == compute_chunk(LastChunk, dispatchers[j].keys)
            IN  \A o \in Range(dispatchers[j].outputs) :
                    Sees(o, Len(input_log), i + 1) =>
                        OpSeen(o, Len(input_log), i + 1) =
                            IF vnodes[i] = vnodes[i + 1] THEN "UpdateInsert" ELSE "Insert"

----------------------------------------------------------------------------
(* Routing and projection. *)

\* dispatcher d routes row i of the input chunk to the actor of output o,
\* judged on the columns of the chunk as the dispatcher received it
RoutesTo(d, chunk, i, o) ==
    CASE d.kind = "Hash" -> Target(d, chunk, i) = ActorOf(o)
      [] d.kind = "CdcTableName" ->
            \/ d.downstream_table_name = None
            \/ chunk.rows[i][d.table_name_col_index + 1] = d.downstream_table_name[1]
      [] OTHER -> TRUE

\* C18: a Hash or CdcTableName dispatcher routes each row on the columns of
\* the input chunk as received, also when the routing column is not listed
\* in output_indices: the dispatch succeeds, an output sees exactly the
\* visible rows routed to it, and the chunk it receives has exactly the
\* output_indices columns of the input.
C18_RouteThenProject ==
    /\ pc = "idle" /\ input_log # <<>>
    /\ input_log[Len(input_log)].kind = "Chunk"
    => /\ status = "running"
       /\ \A j \in DOMAIN dispatchers : \A o \in Range(dispatchers[j].outputs) :
            LET d == dispatchers[j]
                c == LastChunk
            IN  /\ \A i \in DOMAIN c.vis :
                        Sees(o, Len(input_log), i) <=> (c.vis[i] /\ RoutesTo(d, c, i, o))
                /\ \A k \in ChunksFor(o, Len(input_log)) :
                        output_tab[o].data[k].body.rows = project(c, d.output_indices).rows

----------------------------------------------------------------------------
(* Order of the messages of one output. *)

\* every message of data was sent for an input message of its kind
FromInput(data) ==
    \A k \in DOMAIN data :
        /\ data[k].seq \in DOMAIN input_log
        /\ data[k].kind = input_log[data[k].seq].kind

\* C19: the messages an output has received come from input messages of
\* the same kind and are in the order of these input messages, and no input
\* message has given the output more than one message.
C19_PerChannelFifo ==
    \A o \in DOMAIN output_tab :
        /\ FromInput(output_tab[o].data)
        /\ InInputOrder(output_tab[o].data)
        /\ \A seq \in DOMAIN input_log :
                Copies(output_tab[o].data, input_log[seq].kind, seq) <= 1

\* C19 witness: an output has received a message for each of three input
\* messages, a chunk, a barrier and a watermark among them
C19_Witness ==
    \E o \in DOMAIN output_tab :
        /\ Len(output_tab[o].data) = 3
        /\ {output_tab[o].data[k].kind : k \in 1..3} = {"Chunk", "Barrier", "Watermark"}
        /\ \A k \in 1..3 : output_tab[o].data[k].seq = k

----------------------------------------------------------------------------
(* RoundRobin. *)

RoundRobinIndexes == {j \in DOMAIN dispatchers : dispatchers[j].kind = "RoundRobin"}

\* the position of the last barrier that carried a mutation (0 if none did)
LastMutation ==
    LET with == {k \in DOMAIN input_log :
                    input_log[k].kind = "Barrier" /\ input_log[k].body.mutation # None}
    IN  IF with = {} THEN 0 ELSE CHOOSE k \in with : \A k2 \in with : k2 <= k

\* the positions of the chunks consumed since then
StableChunks ==
    {k \in DOMAIN input_log : k > LastMutation /\ input_log[k].kind = "Chunk"}

\* the positions, within the outputs of d, of the outputs that received the
\* projected chunk of input position seq
Receivers(d, seq) ==
    {n \in DOMAIN d.outputs :
        \E k \in DOMAIN output_tab[d.outputs[n]].data :
            output_tab[d.outputs[n]].data[k] =
                ChunkMsg(seq, project(input_log[seq].body, d.output_indices))}

\* C20: a RoundRobin dispatcher sends each chunk to exactly one output; while
\* its n outputs stay the same, the chunk after one sent to output k goes to
\* output k + 1 modulo n (the last one to the output before cur), so every n
\* consecutive chunks reach every output exactly once; and a barrier is sent
\* to all n outputs.
C20_RoundRobin ==
    status = "running" =>
        /\ \A j \in RoundRobinIndexes :
                LET d == dispatchers[j]
                    n == Len(d.outputs)
                IN  pc = "idle" =>
                    /\ \A s \in StableChunks : Cardinality(Receivers(d, s)) = 1
                    /\ \A s \in StableChunks :
                            /\ \A o \in Range(d.outputs) :
                                    Copies(output_tab[o].data, "Chunk", s) =
                                        IF o = d.outputs[CHOOSE r \in Receivers(d, s) : TRUE]
                                        THEN 1 ELSE 0
                            /\ IF \E s2 \in StableChunks : s2 > s
                               THEN LET next == CHOOSE s2 \in StableChunks :
                                            s2 > s /\ \A s3 \in StableChunks : s3 > s => s2 <= s3
                                    IN  Receivers(d, next) =
                                            {((CHOOSE r \in Receivers(d, s) : TRUE) % n) + 1}
                               ELSE d.cur = (CHOOSE r \in Receivers(d, s) : TRUE) % n
                    /\ \A s \in StableChunks :
                            LET window == {s2 \in StableChunks : s2 >= s}
                            IN  Cardinality(window) = n =>
                                    \A o \in Range(d.outputs) :
                                        Cardinality({s2 \in window :
                                            Copies(output_tab[o].data, "Chunk", s2) = 1}) = 1
        /\ pc = "sent" =>
                \A j \in DOMAIN barrier.dispatchers_sent :
                    barrier.dispatchers_sent[j].kind = "RoundRobin" =>
                        \A o \in Range(barrier.dispatchers_sent[j].outputs) :
                            Copies(output_tab[o].data, "Barrier", barrier.seq) = 1

\* C20 witness: a RoundRobin dispatcher with two outputs has been given three
\* chunks in a row, of which the first output received the first and third
C20_Witness ==
    /\ status = "running" /\ pc = "idle"
    /\ Cardinality(StableChunks) = 3
    /\ \E j \in RoundRobinIndexes :
            /\ Len(dispatchers[j].outputs) = 2
            /\ Cardinality({s \in StableChunks : Receivers(dispatchers[j], s) = {1}}) = 2
            /\ Cardinality({s \in StableChunks : Receivers(dispatchers[j], s) = {2}}) = 1

----------------------------------------------------------------------------
(* Broadcast. *)

BroadcastIndexes == {j \in DOMAIN dispatchers : dispatchers[j].kind = "Broadcast"}

\* the chunk with the columns listed in output_indices, ops and visibility as
\* they are
Projected(chunk, output_indices) ==
    [ops |-> chunk.ops, vis |-> chunk.vis,
     rows |-> [i \in DOMAIN chunk.rows |->
                [n \in DOMAIN output_indices |-> chunk.rows[i][output_indices[n] + 1]]]]

\* C21: a Broadcast dispatcher holds one output per actor id, however many
\* outputs of that actor it was constructed or extended with; every output
\* it holds receives every chunk once, projected by output_indices and with
\* ops and visibility unchanged, and every barrier once.
C21_Broadcast ==
    /\ \A j \in BroadcastIndexes :
            \A n1, n2 \in DOMAIN dispatchers[j].outputs :
                ActorOf(dispatchers[j].outputs[n1]) = ActorOf(dispatchers[j].outputs[n2])
                    => n1 = n2
    /\ AfterChunk =>
            \A j \in BroadcastIndexes : \A o \in Range(dispatchers[j].outputs) :
                ReceivedLast(o) = <<ChunkMsg(Len(input_log),
                                        Projected(LastChunk, dispatchers[j].output_indices))>>
    /\ status = "running" /\ pc = "sent" =>
            \A j \in BroadcastIndexes : \A o \in Range(dispatchers[j].outputs) :
                Copies(output_tab[o].data, "Barrier", barrier.seq) = 1

\* C21 witness: a Broadcast dispatcher built with two outputs of one actor
\* holds one of them, which has received a chunk; the other received nothing
C21_Witness ==
    /\ AfterChunk
    /\ \E j \in BroadcastIndexes : \E o \in Range(dispatchers[j].outputs) :
            /\ ReceivedLast(o) # <<>>
            /\ \E o2 \in DOMAIN output_tab \ CurrentOutputs :
                    /\ ActorOf(o2) = ActorOf(o)
                    /\ output_tab[o2].data = <<>>

----------------------------------------------------------------------------
(* CdcTableName. *)

CdcIndexes == {j \in DOMAIN dispatchers : dispatchers[j].kind = "CdcTableName"}

\* C22: once a CdcTableName dispatcher has been given a chunk, a row is
\* visible in the chunk an output received iff it was visible in the input
\* and its table-name column equals the downstream table name; an output
\* receives a chunk only if a row is visible for it, and the chunk has the
\* ops of the input in their order and as many rows.
C22_CdcTableName ==
    /\ pc = "idle" /\ input_log # <<>>
    /\ input_log[Len(input_log)].kind = "Chunk"
    /\ CdcIndexes # {}
    => /\ status = "running"
       /\ \A j \in CdcIndexes : \A o \in Range(dispatchers[j].outputs) :
            LET d == dispatchers[j]
                c == LastChunk
                mine == {i \in DOMAIN c.vis :
                            /\ c.vis[i]
                            /\ c.rows[i][d.table_name_col_index + 1]
                                    = d.downstream_table_name[1]}
            IN  /\ \A i \in DOMAIN c.vis : Sees(o, Len(input_log), i) <=> i \in mine
                /\ mine = {} => ReceivedLast(o) = <<>>
                /\ \A k \in ChunksFor(o, Len(input_log)) :
                        /\ output_tab[o].data[k].body.ops = c.ops
                        /\ Len(output_tab[o].data[k].body.rows) = Len(c.rows)

----------------------------------------------------------------------------
(* An Update for a dispatcher that is not there. *)

\* the last barrier's dispatchers were added without failure, and one of its
\* updates names a dispatcher that is neither among the dispatchers the
\* barrier found nor among those it added
UpdatesUnknownDispatcher ==
    /\ ~IntroducesDuplicate
    /\ \E j \in DOMAIN BarrierUpdates :
            BarrierUpdates[j].dispatcher_id \notin
                DispatcherIdsOf(barrier.dispatchers_before)
                    \cup {BarrierNewDispatchers[k].dispatcher_id :
                            k \in DOMAIN BarrierNewDispatchers}

\* C23: a barrier whose Update names a dispatcher this actor does not have,
\* the barrier's new dispatchers counted in, panics in the pre phase: the
\* executor has panicked, has not left the pre phase, and no output has
\* received the barrier.
C23_UnknownDispatcher ==
    UpdatesUnknownDispatcher =>
        /\ status = "panic" /\ pc = "idle"
        /\ Len(input_log) = barrier.seq
        /\ \A o \in DOMAIN output_tab :
                Copies(output_tab[o].data, "Barrier", barrier.seq) = 0

\* C23 witness: such a barrier, after the outputs of its update were created
C23_Witness ==
    /\ UpdatesUnknownDispatcher
    /\ status = "panic"
    /\ Len(output_tab) > barrier.outputs_before
    /\ CurrentOutputs # {}

----------------------------------------------------------------------------
(* Chunks a Hash dispatcher sends. *)

\* the rows of chunk that are visible for output o of Hash dispatcher d
VisibleFor(d, chunk, o) ==
    {i \in DOMAIN chunk.vis : chunk.vis[i] /\ Target(d, chunk, i) = ActorOf(o)}

\* C24: for one input chunk a Hash dispatcher sends an output at most one
\* chunk, and sends it one iff a row of the input is visible for that
\* output; an output without a visible row receives nothing for the chunk.
C24_HashOneChunk ==
    AfterChunk =>
        \A j \in HashDispatcherIndexes : \A o \in Range(dispatchers[j].outputs) :
            /\ Len(ReceivedLast(o)) <= 1
            /\ ReceivedLast(o) # <<>> <=> VisibleFor(dispatchers[j], LastChunk, o) # {}

\* C24 witness: of two outputs of a Hash dispatcher one received a chunk and
\* the other, for which the chunk has only rows that are invisible, nothing
C24_Witness ==
    /\ AfterChunk
    /\ \E j \in HashDispatcherIndexes : \E o1, o2 \in Range(dispatchers[j].outputs) :
            /\ Len(ReceivedLast(o1)) = 1
            /\ ReceivedLast(o2) = <<>>
            /\ \E i \in DOMAIN LastChunk.vis :
                    ~LastChunk.vis[i] /\ Target(dispatchers[j], LastChunk, i) = ActorOf(o2)

----------------------------------------------------------------------------
(* What Stop, dropped_actors and mutations for other actors leave alone. *)

\* the actors the last barrier's Stop or dropped_actors set removes from
\* every dispatcher: none when the set holds this actor
Swept_actors ==
    LET m == barrier.mutation[1]
        set == IF m.type = "Stop" THEN m.stops
               ELSE IF m.type = "Update" THEN m.dropped_actors ELSE {}
    IN  IF actor_id \in set THEN {} ELSE set

\* the actors the last barrier's updates remove from the dispatcher with id
RemovedByUpdates(id) ==
    UNION {Range(BarrierUpdates[j].removed_downstream_actor_id) :
            j \in UpdatesFor(BarrierUpdates, id)}

\* the post phase removed from every dispatcher the outputs of the actors of
\* the set (and of its update's removed list), and no other output
OnlySetRemoved ==
    \A j \in DOMAIN barrier.dispatchers_sent :
        LET d == barrier.dispatchers_sent[j]
        IN  OutputsNow(d.dispatcher_id) =
                SelectSeq(d.outputs, LAMBDA o :
                    ActorOf(o) \notin Swept_actors \cup RemovedByUpdates(d.dispatcher_id))

\* the last barrier's mutation has entries for other actors only
ForOthersOnly ==
    LET m == barrier.mutation[1]
    IN  /\ m.type \in {"Add", "Update"}
        /\ m.stops = {} /\ m.dropped_actors = {}
        /\ actor_id \notin DOMAIN m.adds \cup DOMAIN m.dispatchers
                                \cup DOMAIN m.actor_new_dispatchers
        /\ DOMAIN m.adds \cup DOMAIN m.dispatchers \cup DOMAIN m.actor_new_dispatchers # {}

\* C25 as stated: a Stop or dropped_actors set that holds this actor removes
\* no output; one that does not removes the outputs of its actors from every
\* dispatcher and no other output; a mutation with entries for other actors
\* only changes nothing in this executor.
C25_AsStated ==
    BarrierJustHandled /\ barrier.mutation # None =>
        /\ OnlySetRemoved
        /\ ForOthersOnly => dispatchers = barrier.dispatchers_before

\* C25: a Stop or dropped_actors set that holds this actor removes no
\* output; one that does not removes the outputs of its actors from every
\* dispatcher and no other output; a mutation with entries for other actors
\* only adds no dispatcher and changes no dispatcher, but the sweep after it
\* removes the dispatchers that had no output.
C25_Frame ==
    BarrierJustHandled /\ barrier.mutation # None =>
        /\ OnlySetRemoved
        /\ ForOthersOnly => dispatchers = Retain(barrier.dispatchers_before)

\* C25 witness: a Stop set that holds this actor and the actors of outputs
\* that are still there after the barrier
C25_Witness ==
    /\ BarrierJustHandled /\ barrier.mutation # None
    /\ barrier.mutation[1].type = "Stop"
    /\ actor_id \in barrier.mutation[1].stops
    /\ \E o \in CurrentOutputs : ActorOf(o) \in barrier.mutation[1].stops

----------------------------------------------------------------------------
(* Updates without a mapping. *)

\* the last barrier carries updates, all without hash_mapping and all for
\* dispatchers that were there and are not Hash dispatchers
UpdatesWithoutMapping ==
    /\ BarrierUpdates # <<>>
    /\ \A j \in DOMAIN BarrierUpdates :
            LET u == BarrierUpdates[j]
                i == find_dispatcher(barrier.dispatchers_before, u.dispatcher_id)
            IN  /\ u.hash_mapping = None
                /\ i # 0
                /\ barrier.dispatchers_before[i].kind # "Hash"

\* C26: an Update without hash_mapping for dispatchers that are not Hash
\* dispatchers does not fail for the missing mapping (no error is returned),
\* and once the barrier is handled each updated dispatcher differs from
\* what it was only by its outputs (and RoundRobin's cur): those before the
\* barrier and the added ones, less the removed ones.
C26_MappingIgnored ==
    UpdatesWithoutMapping =>
        /\ status # "error"
        /\ BarrierJustHandled =>
                \A j \in DOMAIN BarrierUpdates :
                    LET id == BarrierUpdates[j].dispatcher_id
                        i == find_dispatcher(dispatchers, id)
                        before == barrier.dispatchers_before[
                                    find_dispatcher(barrier.dispatchers_before, id)]
                        added == UNION {Range(BarrierUpdates[k].added_downstream_actor_id) :
                                            k \in UpdatesFor(BarrierUpdates, id)}
                    IN  /\ ActorsOf(OutputsNow(id)) =
                                (ActorsOf(before.outputs) \cup added)
                                    \ (RemovedByUpdates(id) \cup Swept_actors)
                        /\ i # 0 => [dispatchers[i] EXCEPT !.outputs = <<>>, !.cur = 0]
                                        = [before EXCEPT !.outputs = <<>>, !.cur = 0]

\* C26 witness: such an Update has been handled and has replaced an output
\* of a dispatcher by one of another actor
C26_Witness ==
    /\ UpdatesWithoutMapping /\ BarrierJustHandled
    /\ \E j \in DOMAIN BarrierUpdates :
            LET id == BarrierUpdates[j].dispatcher_id
            IN  /\ ActorsOf(OutputsNow(id)) \ ActorsOf(OutputsBefore(id)) # {}
                /\ ActorsOf(OutputsBefore(id)) \ ActorsOf(OutputsNow(id)) # {}

----------------------------------------------------------------------------
(* The outputs of a Simple dispatcher. *)

\* C27: a Simple dispatcher has more than two outputs only in an executor
\* that has just failed add_outputs' assertion in the pre phase of a
\* barrier, before the barrier was sent; in every other state it has at
\* most two.
C27_SimpleAtMostTwo ==
    \A j \in SimpleDispatcherIndexes :
        Len(dispatchers[j].outputs) > 2 =>
            /\ status = "panic" /\ pc = "idle"
            /\ Len(input_log) = barrier.seq
            /\ BarrierUpdates # <<>>
            /\ \A o \in DOMAIN output_tab :
                    Copies(output_tab[o].data, "Barrier", barrier.seq) = 0

\* C27 witness: an Update that gives a Simple dispatcher a second and a
\* third output has failed the assertion
C27_Witness ==
    /\ status = "panic"
    /\ \E j \in SimpleDispatcherIndexes :
            /\ Len(dispatchers[j].outputs) = 3
            /\ Len(OutputsBefore(dispatchers[j].dispatcher_id)) = 1

----------------------------------------------------------------------------
(* One chunk, several dispatchers. *)

\* this step consumes a chunk
ConsumesChunk ==
    /\ Len(input_log') = Len(input_log) + 1
    /\ input_log'[Len(input_log')].kind = "Chunk"

\* dispatcher j and its outputs are after this step what dispatch_data of
\* dispatcher j alone makes of the chunk
AsIfAlone(j) ==
    LET alone == dispatch_data(dispatchers[j], output_tab, Len(input_log'),
                               input_log'[Len(input_log')].body)
    IN  /\ dispatchers'[j] = alone.d
        /\ \A o \in Range(dispatchers[j].outputs) : output_tab'[o] = alone.tab[o]

\* dispatcher j and its outputs are after this step what they were
Untouched(j) ==
    /\ dispatchers'[j] = dispatchers[j]
    /\ \A o \in Range(dispatchers[j].outputs) : output_tab'[o] = output_tab[o]

\* the dispatchers whose dispatch_data, alone, does not return Ok
Failing ==
    {j \in DOMAIN dispatchers :
        dispatch_data(dispatchers[j], output_tab, Len(input_log) + 1,
                      input_log'[Len(input_log')].body).result # "Ok"}

EveryDispatcherGetsChunk ==
    ConsumesChunk =>
        /\ DOMAIN dispatchers' = DOMAIN dispatchers
        /\ (status' = "running") = (Failing = {})
        /\ \A j \in DOMAIN dispatchers :
                IF \E k \in Failing : k < j THEN Untouched(j) ELSE AsIfAlone(j)

\* C28: a step that dispatches a chunk gives the same chunk to every
\* dispatcher, in the order of the list: each dispatcher and its outputs end
\* up as dispatch_data of that dispatcher alone leaves them, whether the
\* list has one dispatcher or several; only a dispatcher behind one whose
\* dispatch_data failed is not given the chunk.
C28_EveryDispatcher == [][EveryDispatcherGetsChunk]_vars

\* C28 witness: two dispatchers with different output_indices have each sent
\* an output the last chunk, in different projections
C28_Witness ==
    /\ AfterChunk
    /\ \E j1, j2 \in DOMAIN dispatchers :
            \E o1 \in Range(dispatchers[j1].outputs), o2 \in Range(dispatchers[j2].outputs) :
                /\ j1 # j2
                /\ ReceivedLast(o1) # <<>> /\ ReceivedLast(o2) # <<>>
                /\ ReceivedLast(o1)[1].body.rows # ReceivedLast(o2)[1].body.rows
                /\ ReceivedLast(o1)[1].body.ops = ReceivedLast(o2)[1].body.ops

----------------------------------------------------------------------------
(* Two-phase aggregation. *)

\* can_two_phase_agg has returned for a plan node
Decided == plan # None /\ plan[1].call = "can_two_phase_agg" /\ plan[1].result # None

\* the three conditions on one agg call
KindCanTwoPhase(call) == ~call.agg_kind.simply_cannot_two_phase

OrderByHarmless(call) ==
    call.agg_kind.result_unaffected_by_order_by \/ Len(call.order_by) = 0

DistinctHarmless(call) ==
    call.agg_kind.result_unaffected_by_distinct \/ call.distinct = FALSE

\* C29: can_two_phase_agg permits two-phase aggregation only if two-phase
\* is enabled, the node has at least one agg call, and every call meets all
\* three conditions (its kind can be two-phased, ORDER BY is harmless,
\* DISTINCT is harmless); so one call failing one of them forbids it.
C29_CanTwoPhase ==
    (Decided /\ plan[1].result = Some(TRUE)) =>
        LET agg == plan[1].self
        IN  /\ agg.enable_two_phase
            /\ Len(agg.agg_calls) >= 1
            /\ \A i \in DOMAIN agg.agg_calls :
                    /\ KindCanTwoPhase(agg.agg_calls[i])
                    /\ OrderByHarmless(agg.agg_calls[i])
                    /\ DistinctHarmless(agg.agg_calls[i])

\* C29 witness: two-phase is permitted for a node of two calls, one with an
\* ORDER BY and one DISTINCT
C29_Witness ==
    /\ Decided /\ plan[1].result = Some(TRUE)
    /\ Len(plan[1].self.agg_calls) = 2
    /\ plan[1].self.agg_calls[1].order_by # <<>>
    /\ plan[1].self.agg_calls[2].distinct

\* partial_to_total_agg_call has returned
TotalBuilt ==
    plan # None /\ plan[1].call = "partial_to_total_agg_call" /\ plan[1].result # None

\* C30: for a partial call whose kind has a total kind,
\* partial_to_total_agg_call builds a call of that kind whose only input is
\* the column partial_output_idx with the partial call's return type, whose
\* ORDER BY is empty and whose FILTER is always true; return_type, distinct
\* and direct_args are those of the partial call.
C30_PartialToTotal ==
    (TotalBuilt /\ plan[1].self.agg_kind.partial_to_total # None) =>
        LET partial == plan[1].self
            built == plan[1].result[1]
        IN  /\ built.result = "Ok"
            /\ built.call # None
            /\ LET total == built.call[1]
               IN  /\ total.agg_kind = partial.agg_kind.partial_to_total[1]
                   /\ Len(total.inputs) = 1
                   /\ total.inputs[1].index = plan[1].partial_output_idx[1]
                   /\ total.inputs[1].data_type = partial.return_type
                   /\ total.order_by = <<>>
                   /\ total.filter.conjunctions = <<>>
                   /\ total.return_type = partial.return_type
                   /\ total.distinct = partial.distinct
                   /\ total.direct_args = partial.direct_args
                   /\ DOMAIN total = DOMAIN partial

\* C30 witness: the total call of a DISTINCT partial call with two inputs,
\* an ORDER BY, a FILTER and a direct argument has been built
C30_Witness ==
    /\ TotalBuilt
    /\ plan[1].result[1].result = "Ok"
    /\ Len(plan[1].self.inputs) = 2
    /\ plan[1].self.order_by # <<>>
    /\ plan[1].self.filter # true_cond
    /\ plan[1].self.direct_args # <<>>
    /\ plan[1].self.distinct
    /\ plan[1].partial_output_idx = Some(2)

----------------------------------------------------------------------------
(* The state of a streaming aggregation. *)

\* the optimizer's call has returned
Returned(call) == plan # None /\ plan[1].call = call /\ plan[1].result # None

\* C31: all_local_aggs_are_stateless permits a stateless local aggregation
\* when every agg call is of a kind with a single-value state, or of a kind
\* with a single-value state iff append-only while the upstream is
\* append-only.
C31_StatelessLocal ==
    Returned("all_local_aggs_are_stateless") =>
        LET calls == plan[1].self.agg_calls
            append_only == plan[1].stream_input_append_only
        IN  (\A i \in DOMAIN calls :
                \/ calls[i].agg_kind.single_value_state
                \/ (calls[i].agg_kind.single_value_state_iff_in_append_only /\ append_only))
            => plan[1].result = Some(TRUE)

\* C31 witness: permitted over an append-only upstream for two calls, one of
\* each sort
C31_Witness ==
    /\ Returned("all_local_aggs_are_stateless")
    /\ plan[1].result = Some(TRUE)
    /\ plan[1].stream_input_append_only
    /\ Len(plan[1].self.agg_calls) = 2
    /\ plan[1].self.agg_calls[1].agg_kind.single_value_state
    /\ ~plan[1].self.agg_calls[2].agg_kind.single_value_state
    /\ plan[1].self.agg_calls[2].agg_kind.single_value_state_iff_in_append_only

\* the order the claim gives the state table of a call after the group key:
\* pairs <<upstream column, direction>>
StatedOrder(self, call) ==
    LET first == call.inputs[1].index
        by == IF call.agg_kind.name = "Min" THEN << <<first, "Ascending">> >>
              ELSE IF call.agg_kind.name = "Max" THEN << <<first, "Descending">> >>
              ELSE [i \in DOMAIN call.order_by |->
                      << call.order_by[i].column_index,
                         IF call.agg_kind.name # "LastValue" THEN call.order_by[i].order_type
                         ELSE IF call.order_by[i].order_type = "Ascending" THEN "Descending"
                         ELSE "Ascending" >>]
        extra == IF call.distinct THEN <<first>> ELSE self.input.stream_key
    IN  by \o [i \in DOMAIN extra |-> <<extra[i], "Ascending">>]

\* the places of a stated order whose column is not in the table yet
NewPlaces(self, stated) ==
    { i \in DOMAIN stated :
        /\ stated[i][1] \notin Range(self.group_key)
        /\ \A j \in 1..(i - 1) : stated[j][1] # stated[i][1] }

\* the primary key of a table as pairs <<upstream column, direction>>
PkUpstream(table) ==
    [i \in DOMAIN table.pk |->
        <<table.columns[table.pk[i].column_index + 1].index, table.pk[i].order_type>>]

\* C32: the primary key of the materialized-input state table of a call is
\* the group key (ascending), then the call's sort keys (input[0] ascending
\* for Min, descending for Max, otherwise the ORDER BY, reversed for
\* LastValue), then the extra keys ascending (the distinct column of a
\* DISTINCT call, else the upstream primary key), where a column that is in
\* the table already is neither added nor ordered again.
C32_StateOrder ==
    (Returned("infer_stream_agg_state") /\ plan[1].result[1].result = "Ok"
        /\ plan[1].result[1].states[1].state = "MaterializedInput") =>
        LET self == plan[1].self
            table == plan[1].result[1].states[1].table
            pk == PkUpstream(table)
            n == Len(self.group_key)
            stated == StatedOrder(self, self.agg_calls[1])
            new == NewPlaces(self, stated)
        IN  /\ Len(pk) = n + Cardinality(new)
            /\ {pk[i][1] : i \in 1..n} = Range(self.group_key)
            /\ \A i \in 1..n : pk[i][2] = "Ascending"
            /\ \A i \in new : pk[n + Cardinality({j \in new : j <= i})] = stated[i]
            /\ \A i, j \in DOMAIN table.columns : i # j => table.columns[i] # table.columns[j]

\* C32 witness: the state table of a LastValue call whose ORDER BY names a
\* new column, descending, and then a group key column
C32_Witness ==
    /\ Returned("infer_stream_agg_state") /\ plan[1].result[1].result = "Ok"
    /\ plan[1].result[1].states[1].state = "MaterializedInput"
    /\ plan[1].self.agg_calls[1].agg_kind.name = "LastValue"
    /\ plan[1].self.group_key = <<0>>
    /\ plan[1].self.agg_calls[1].order_by = <<ColumnOrder(2, "Descending"), ColumnOrder(0, "Ascending")>>
    /\ ~plan[1].self.agg_calls[1].distinct
    /\ plan[1].self.input.stream_key = <<0, 2>>
    /\ PkUpstream(plan[1].result[1].states[1].table) = << <<0, "Ascending">>, <<2, "Ascending">> >>

\* the DISTINCT calls of a plan node over column col, as places in agg_calls
DistinctOn(self, col) ==
    { i \in DOMAIN self.agg_calls :
        self.agg_calls[i].distinct /\ self.agg_calls[i].inputs[1].index = col }

\* C33: infer_distinct_dedup_tables yields one table for each column that is
\* the first argument of a DISTINCT call, and no other table; the columns
\* of the table of a column are the group key, then that column, then one
\* count column for each DISTINCT call over it and none for any other call.
C33_DedupTables ==
    Returned("infer_distinct_dedup_tables") =>
        LET self == plan[1].self
            tables == plan[1].result[1]
            n == Len(self.group_key)
        IN  /\ DOMAIN tables = { c \in 0..2 : DistinctOn(self, c) # {} }
            /\ \A c \in DOMAIN tables :
                LET columns == tables[c].columns
                    counts == { columns[k] : k \in (n + 2)..Len(columns) }
                IN  /\ Len(columns) = n + 1 + Cardinality(DistinctOn(self, c))
                    /\ \A k \in 1..n : columns[k] = [name |-> "input", index |-> self.group_key[k]]
                    /\ columns[n + 1] = [name |-> "input", index |-> c]
                    /\ counts = { [name |-> "count_for_agg_call", index |-> i - 1] :
                                    i \in DistinctOn(self, c) }

\* C33 witness: two DISTINCT calls over column 1 share one table, beside a
\* call that is not DISTINCT
C33_Witness ==
    /\ Returned("infer_distinct_dedup_tables")
    /\ Len(plan[1].self.agg_calls) = 3
    /\ DistinctOn(plan[1].self, 1) = {1, 3}
    /\ ~plan[1].self.agg_calls[2].distinct
    /\ plan[1].self.agg_calls[2].inputs # <<>>
    /\ plan[1].self.group_key = <<0>>
    /\ DOMAIN plan[1].result[1] = {1}
    /\ Len(plan[1].result[1][1].columns) = 4

----------------------------------------------------------------------------
(* The op vector a Hash dispatcher sends. *)

\* the ops a row with op `op` may carry after the rewrite
RewrittenOps(op) ==
    IF op = "UpdateDelete" THEN {"UpdateDelete", "Delete"}
    ELSE IF op = "UpdateInsert" THEN {"UpdateInsert", "Insert"}
    ELSE {op}

\* C34: a Hash dispatcher handles every chunk whose UpdateDelete and
\* UpdateInsert rows come in pairs, whatever rows are visible, and the chunk
\* an output receives has one op for each row of the input chunk, at the
\* place of the row: the op of the row, or for a row of an update pair that
\* op or its rewrite to Delete or Insert.
C34_OpPerRow ==
    (pc = "idle" /\ input_log # <<>> /\ input_log[Len(input_log)].kind = "Chunk") =>
        /\ status = "running"
        /\ \A j \in HashDispatcherIndexes : \A o \in Range(dispatchers[j].outputs) :
            \A k \in DOMAIN ReceivedLast(o) :
                LET ops == ReceivedLast(o)[k].body.ops
                IN  /\ Len(ops) = Len(LastChunk.ops)
                    /\ \A i \in DOMAIN ops : i \in DOMAIN LastChunk.ops
                            => ops[i] \in RewrittenOps(LastChunk.ops[i])

----------------------------------------------------------------------------
(* The cursor of a RoundRobin dispatcher. *)

\* C35: the cursor of a RoundRobin dispatcher that has outputs is the index
\* of one of them, and the removal of every output of a RoundRobin
\* dispatcher completes: no executor has failed in the post phase of a
\* barrier with a RoundRobin dispatcher left without outputs.
C35_CursorValid ==
    \A j \in RoundRobinIndexes :
        /\ dispatchers[j].outputs # <<>> => dispatchers[j].cur < Len(dispatchers[j].outputs)
        /\ dispatchers[j].outputs = <<>> => ~(status = "panic" /\ pc = "sent")

----------------------------------------------------------------------------
(* The barriers the executor yields. *)

\* the handling of the barrier at place seq of the input has returned Ok
Handled(seq) ==
    \/ seq < barrier.seq
    \/ /\ seq = barrier.seq /\ pc = "idle"
       /\ (status = "running" \/ Len(input_log) > seq)

\* the places of the input that hold a barrier whose dispatch returned Ok
HandledBarriers ==
    SelectSeq([k \in DOMAIN input_log |-> k],
              LAMBDA k : input_log[k].kind = "Barrier" /\ Handled(k))

\* output o has received the barrier of place seq
GotBarrier(o, seq) ==
    \E k \in DOMAIN output_tab[o].data :
        output_tab[o].data[k].seq = seq /\ output_tab[o].data[k].kind = "Barrier"

\* C36: the barriers yielded are the barriers of the input whose dispatch
\* returned Ok, once each and in the order of the input (chunks, watermarks
\* and a barrier whose dispatch failed yield nothing); the last barrier
\* yielded has reached every output of the dispatchers it was sent through,
\* and its post phase is over.
C36_YieldedBarriers ==
    /\ LET handled == HandledBarriers
       IN  /\ Len(yielded) = Len(handled)
           /\ \A k \in DOMAIN yielded :
                    /\ yielded[k].seq = handled[k]
                    /\ yielded[k].mutation = input_log[handled[k]].body.mutation
    /\ (yielded # <<>> /\ yielded[Len(yielded)].seq = barrier.seq) =>
            /\ pc = "idle"
            /\ \A j \in DOMAIN barrier.dispatchers_sent :
                    \A o \in Range(barrier.dispatchers_sent[j].outputs) : GotBarrier(o, barrier.seq)

\* C36 witness: two barriers have been yielded, the second with a mutation,
\* and a chunk between them has yielded nothing
C36_Witness ==
    /\ Len(yielded) = 2
    /\ Len(input_log) = 3
    /\ input_log[2].kind = "Chunk"
    /\ yielded[2].seq = 3
    /\ yielded[2].mutation # None
    /\ barrier.dispatchers_sent # <<>>

----------------------------------------------------------------------------
(* An Update of a Hash dispatcher without hash mapping. *)

\* the post phase of the last barrier has returned an error, and the barrier
\* has an update without hash_mapping for a Hash dispatcher
PostFailedOnMapping ==
    /\ pc = "sent" /\ status = "error"
    /\ \E j \in DOMAIN BarrierUpdates :
            LET i == find_dispatcher(barrier.dispatchers_sent, BarrierUpdates[j].dispatcher_id)
            IN  /\ BarrierUpdates[j].hash_mapping = None
                /\ i # 0
                /\ barrier.dispatchers_sent[i].kind = "Hash"

\* C37: when the post phase of an Update fails on the hash mapping of a Hash
\* dispatcher, dispatch returns the error and every Hash dispatcher is what
\* it was when the barrier was sent: same outputs, same hash mapping.
C37_PostFailureAtomic ==
    PostFailedOnMapping =>
        /\ Len(dispatchers) = Len(barrier.dispatchers_sent)
        /\ \A i \in DOMAIN dispatchers :
                dispatchers[i].kind = "Hash" =>
                    /\ dispatchers[i].outputs = barrier.dispatchers_sent[i].outputs
                    /\ dispatchers[i].hash_mapping = barrier.dispatchers_sent[i].hash_mapping

----------------------------------------------------------------------------
(* The catalog manager: creation procedures. *)

\* the jobs of the four start procedures that mark a creation in progress
MarkingJobs == {job \in StreamingJobs : job.kind \in {"Source", "Sink", "Index"} \/ (job.kind = "Table" /\ job.source # None)}

\* the keys a start procedure of the job marks as in progress
KeysOf(job) ==
    CASE job.kind = "Source" -> {RelationKey(job.source[1])}
      [] job.kind = "Sink" -> {RelationKey(job.sink[1])}
      [] job.kind = "Index" -> {RelationKey(job.index[1])}
      [] OTHER -> {RelationKey(job.source[1]), RelationKey(job.table[1])}

\* the cancel procedure that matches the start procedure of the job
MatchingCancel(c, job) ==
    CASE job.kind = "Source" -> cancel_create_source_procedure(c, job.source[1])
      [] job.kind = "Sink" -> cancel_create_sink_procedure(c, job.sink[1])
      [] job.kind = "Index" -> cancel_create_index_procedure(c, job.index[1], job.table[1])
      [] OTHER -> cancel_create_table_procedure_with_source(c, job.source[1], job.table[1])

\* the four parts of the core the creation procedures count in
Counted(c) ==
    <<c.database.in_progress_creation_tracker,
      c.database.in_progress_creation_streaming_job,
      c.database.relation_ref_count,
      c.user.catalog_create_ref_count>>

\* C38: whenever one of the four start procedures (source, table with
\* source, index, sink) is called on the catalog and returns an error, the
\* in-progress creation tracker, the in-progress streaming-job map, the
\* relation reference counts and the user reference counts are what they
\* were before the call.
C38_FailedStartUnchanged ==
    \A job \in MarkingJobs :
        LET r == start_create_stream_job_procedure(core, job, TRUE)
        IN  r.result = "Err" => Counted(r.core) = Counted(core)

\* C39: whenever a start procedure (sink, index, source, table with source)
\* succeeds on the catalog, the matching cancel procedure right after it
\* succeeds and gives back the core the start was called on (tracker,
\* streaming-job map, relation and connection reference counts, user
\* reference counts); and a start of a job one of whose keys is in the
\* in-progress tracker returns an error.
C39_StartCancelRoundTrip ==
    \A job \in MarkingJobs :
        LET s == start_create_stream_job_procedure(core, job, TRUE)
        IN  /\ s.result = "Ok" =>
                /\ Counted(s.core) # Counted(core)
                /\ MatchingCancel(s.core, job) = Returns("Ok", core)
            /\ KeysOf(job) \cap core.database.in_progress_creation_tracker # {} =>
                s.result = "Err"

\* C39 witness: the index, the sink and the source were started, a second
\* sink of the same name was refused, and the index has been cancelled:
\* table 3 and connection 4 are left with the references of the jobs that
\* are still in progress, and the owner with those and its own two.
C39_Witness ==
    /\ tasks.last = [op |-> "cancel_create_index_procedure", id |-> 7, result |-> "Ok"]
    /\ tasks.started = {5, 6}
    /\ core.database.in_progress_creation_tracker = {<<1, 2, "s">>, <<1, 2, "k">>}
    /\ DOMAIN core.database.in_progress_creation_streaming_job = {6}
    /\ core.database.relation_ref_count = MapInsert(MapInsert(EmptyMap, 3, 1), 4, 2)
    /\ core.user.catalog_create_ref_count = MapInsert(EmptyMap, 10, 4)
    /\ start_create_stream_job_procedure(core,
            StreamingJob("Sink", 12, None, None, Some(Sink(12, 1, "k", <<3>>, None)), None),
            TRUE).result = "Err"

\* the table a cancel_create_table_procedure call has removed from the
\* table map in its first lock scope, while the reference counts of its
\* owner and of the relations it depends on wait for the second lock scope
RemovedNotDecreased ==
    {table \in Range(tasks.cancelling) : table.id \notin DOMAIN core.database.tables}

\* C40: in no state that another holder of the core lock can see has a
\* cancel_create_table_procedure call removed its table from the table map
\* without having decreased the reference counts of the table's owner and
\* of the relations it depends on.
C40_CancelAtomic == RemovedNotDecreased = {}

====
